---- MODULE Spec2Model ----
(***************************************************************************)
(* Model of the call-session lifecycle controller (the useTwilioVoice hook) *)
(* and of the reservation scheduling guard (the ReservationList component) *)
(* of twilio-ph-call-client.                                               *)
(*                                                                         *)
(* The telephony provider (devices, sessions and the events they emit),    *)
(* the credential gateway and the reservation store are the environment:   *)
(* their answers are nondeterministic.  Every asynchronous function of the *)
(* program is cut at its awaits; each piece between two awaits, each event *)
(* listener and each timer callback is one atomic action.                  *)
(***************************************************************************)
EXTENDS Integers, FiniteSets, Sequences

\* ---------------------------------------------------------------- bounds
MaxSessions == 2    \* provider sessions, live or being connected, at once
MaxInits == 2       \* initialize() invocations in flight at once, and their devices
MaxTimers == 1      \* settle timers pending at once
MaxWrites == 2      \* endReservationCall writes of one reservation in flight at once
MaxDuration == 2    \* seconds a call is timed for
MaxTokenTimers == 2 \* timeouts of setupTokenRefresh pending at once
MaxRefreshes == 1   \* token refresh callbacks suspended at an await at once

Null == 0
Unset == -1
DeviceIds == 1..MaxInits
SessionIds == 1..MaxSessions
InitSlots == 1..MaxInits

Identities == {"alice"}
ScenarioIdentities == {"alice", "bob", "carol"}
ScenarioDestinations == {"+15551234567", "+15557654321"}
Destinations == {"+15551234567"}
Callers == {"dave"}
CallTypes == {"direct", "phone"}

\* the reservations of the user of ReservationList, all of one date
Username == "alice"
ReservationIds == {7, 8}
\* what the store holds when the page is opened: one reservation to call
InitialStore == [r \in ReservationIds |-> IF r = 7 THEN "scheduled" ELSE "cancelled"]
ReservationDate == "2025-01-15"
NextDate == "2025-01-16"


\* the prefixes handleError and initialize's catch put in state.error
ErrInit == "Initialization error"
ErrCall == "Call error"
ErrMake == "Error making call"
ErrAnswer == "Failed to answer call"
ErrReject == "Failed to reject call"
ErrEnd == "Failed to end call"
ErrMute == "Failed to toggle mute"

VARIABLES
  \* ---- the hook's React state (useState, lines 40-56)
  identity, callStatus, error, isMuted, isInitialized, remoteIdentity,
  \* ---- the hook's refs (lines 58-59)
  deviceRef, activeCallRef,
  \* ---- asynchronous work of the hook that is suspended or scheduled
  inits,            \* initialize() invocations suspended at an await
  pendingConnects,  \* makeCall() invocations suspended on device.connect
  settleTimers,     \* setTimeout(() => updateCallStatus("ready"), 300 | 500) pending
  \* ---- the provider
  devices,          \* DeviceIds -> "free" | "registering" | "registered" | "destroyed"
  sessions,         \* SessionIds -> [st, dir, phase]
  \* ---- the presentation boundary
  observed,         \* the callStatus values rendered so far, in order
  \* ---- ReservationList: state and refs (lines 22-40)
  reservations,     \* ReservationIds -> the status the fetched list shows, or "absent"
  activeCall,       \* the reservation bound to the call, or Null
  callTimer,        \* refs.callTimer: the 1 s interval of startCallTimer is armed
  timerReservations,\* the ids in the list that the armed interval's closure holds
  rendered,         \* the values the effects last ran with
  \* ---- ReservationList: asynchronous work in flight
  hsc,              \* the handleStartCall invocation suspended at an await
  endWrites,        \* ReservationIds -> cleanupCall(true) awaiting endReservationCall
  \* ---- the reservation store and the wall clock
  store,            \* ReservationIds -> "scheduled" | "ongoing" | "completed"
  clock,            \* "within" | "due" | "overdue" | "after", against endTime
  today,            \* now.toISOString().split("T")[0]
  polled,           \* checkEndTime has run since the clock became "due"
  ticked,           \* the 1 s interval has run since the clock became "due"
  \* ---- history of the run
  openAtEnd,        \* the reservation bound to a call that showed open when endTime
                    \* was reached, for as long as it stays bound and the call open
  dialedLate,       \* makeCall was invoked for a reservation after its endTime
  \* ---- ReservationList: recovery after a page refresh (lines 27, 37, 253-279)
  recovery,         \* the recoverFromRefresh invocation suspended at an await
  hasInitiallyLoaded,   \* refs.hasInitiallyLoaded
  recoveredFromRefresh, \* the state recoveredFromRefresh
  ongoingAtLoad,    \* the reservations the store held as ongoing when the page opened
  \* ---- ReservationList: the length of the call (lines 26, 31-33)
  duration,         \* refs.duration, seconds
  callStartTime,    \* how many seconds ago refs.callStartTime was; Unset when null
  sentDuration,     \* per reservation, the callDuration of the write of "completed"
                    \* in flight; Unset with none
  \* ---- reservationApi.ts
  apiAlert,         \* the alert "Ngrok authentication required" has been shown
  \* ---- the hook: the credential and its refresh (lines 60-61, 171-199)
  tokenRefreshTimerRef, \* what the ref holds: "none" (null), the id of a pending
                    \* "refresh" or "backoff" timeout, or one that is "gone"
  tokenTimers,      \* how many timeouts of setupTokenRefresh are pending, by kind
  refreshes,        \* how many timer callbacks are suspended, by the await
  \* ---- the lifetime of the component and its other intervals
  mounted,          \* the component using the hook has not been unmounted
  pollTimer,        \* the 5 s interval of checkEndTime is armed (line 191)
  refreshTimer,     \* refs.refreshTimer: the list refresh interval is armed (291)
  \* ---- one operation applied to given arguments
  probe             \* the arguments, and the result once it has returned

hookVars == <<identity, callStatus, error, isMuted, isInitialized, remoteIdentity>>
refVars == <<deviceRef, activeCallRef>>
tokenVars == <<tokenRefreshTimerRef, tokenTimers, refreshes>>
asyncVars == <<inits, pendingConnects, settleTimers, tokenVars>>
provVars == <<devices, sessions>>
ctrlVars == <<hookVars, refVars, asyncVars, provVars>>

\* what lies outside the hook: the components that use it
listVars == <<reservations, activeCall, callTimer, timerReservations, rendered,
              hsc, endWrites, pollTimer>>
histVars == <<openAtEnd, dialedLate>>
worldVars == <<store, clock, today, polled, ticked, histVars>>
recVars == <<recovery, hasInitiallyLoaded, recoveredFromRefresh, ongoingAtLoad>>

durVars == <<duration, callStartTime, sentDuration>>

\* what only some of the specifications below move, and the part of it that
\* the call handlers leave alone
mountVars == <<mounted, refreshTimer>>
quietVars == <<recVars, durVars, apiAlert, probe, mountVars>>
stillVars == <<observed, recVars, apiAlert, probe, mountVars>>
sideVars == <<observed, quietVars>>
outerVars == <<sideVars, listVars, worldVars>>

vars == <<ctrlVars, outerVars>>

\* ------------------------------------------------------------ provider
FreeSession == [st |-> "free", dir |-> "out", phase |-> "new"]
IdleInit == [pc |-> "idle", ident |-> "", dev |-> Null]

LiveSessions == {s \in SessionIds : sessions[s].st = "live"}
UndestroyedDevices == {d \in DeviceIds : devices[d] \in {"registering", "registered"}}

FreeSessionIds == {s \in SessionIds : sessions[s].st = "free"}
FreeDeviceIds == {d \in DeviceIds : devices[d] = "free"}
Min(S) == CHOOSE x \in S : \A y \in S : x <= y

\* Call.disconnect() / Call.reject(): the provider closes the session and will
\* emit the terminal event to the listeners later.
DiscSession == [st |-> "disc", dir |-> "out", phase |-> "new"]
ProviderDisconnect(sess, s) == [sess EXCEPT ![s] = DiscSession]

\* Device.destroy(): the id stays taken while an initialize() still awaits
\* register() on the device.
ProviderDestroy(devs, d, ins) ==
  IF d = Null THEN devs
  ELSE [devs EXCEPT ![d] =
          IF \E i \in InitSlots : ins[i].dev = d THEN "destroyed" ELSE "free"]

\* a destroyed device that no initialize() awaits any more is gone
Collected(devs, ins) ==
  [d \in DeviceIds |->
     IF devs[d] = "destroyed" /\ ~ \E j \in InitSlots : ins[j].dev = d
     THEN "free" ELSE devs[d]]

\* -------------------------------------------------------- hook helpers
\* cleanupCallResources, lines 71-92: a session that is not closed is disconnected
CleanupSessions(sess, a) ==
  IF a # Null /\ sess[a].st = "live" THEN ProviderDisconnect(sess, a) ELSE sess

\* (mutant) the remote identity is left as it was
KeptRemote(remote) == remote

\* cleanupCallResources, line 100: updateState({ ..., remoteIdentity: "" })
ClearedRemote(remote) == ""

\* (mutant) the handle is left as it was
KeptCallRef(a) == a

\* cleanupCallResources, line 95
ClearedCallRef(a) == Null

\* updateCallStatus, line 142: status "ready" clears the error
ErrorAfterStatus(status, err) == IF status = "ready" THEN "" ELSE err

\* (mutant) the settle timer writes the transient status again
SettleStatusClosed == "closed"

\* the status the settle timers of setupCallListeners write (lines 231, 262)
SettleStatus == "ready"

\* window.clearTimeout(tokenRefreshTimerRef.current), lines 107-108 and
\* 173-175: the timeout the ref holds is cancelled if it is still pending
ClearedTimers(ref, timers) ==
  IF ref \in {"refresh", "backoff"} THEN [timers EXCEPT ![ref] = @ - 1] ELSE timers

\* setupTokenRefresh, lines 171-199, with the ref holding ref: that timeout
\* is cleared and one of TOKEN_REFRESH_INTERVAL is armed and stored in the ref
SetupTokenRefresh(ref, timers) ==
  /\ tokenTimers' = [ClearedTimers(ref, timers) EXCEPT !.refresh = @ + 1]
  /\ tokenTimers'.refresh + tokenTimers'.backoff <= MaxTokenTimers
  /\ tokenRefreshTimerRef' = "refresh"

\* a pending timeout of the given kind can fire: the one the ref holds
\* (held), or one whose id the ref has lost
CanFire(kind, held) ==
  IF held THEN tokenRefreshTimerRef = kind
  ELSE tokenTimers[kind] > (IF tokenRefreshTimerRef = kind THEN 1 ELSE 0)

\* the ref once that timeout has fired: it still holds the id
RefAfterFire(held) == IF held THEN "gone" ELSE tokenRefreshTimerRef

\* (mutant) a failed refresh fails the session
FailedStatus(status) == "error"

\* the catch of the refresh callback, lines 189-195: no updateState
KeptStatus(status) == status

\* the strings extractClientIdentity works on, as sequences of characters
ClientPrefix == <<"c", "l", "i", "e", "n", "t", ":">>
Unknown == <<"u", "n", "k", "n", "o", "w", "n">>

\* String.prototype.startsWith(prefix)
StartsWith(str, prefix) ==
  Len(str) >= Len(prefix) /\ SubSeq(str, 1, Len(prefix)) = prefix

\* (mutant) nothing is cut off
WholeString(str, start) == str

\* String.prototype.substring(start)
Substring(str, start) == SubSeq(str, start + 1, Len(str))

\* parameters.From || "", line 203
FromOf(parameters) ==
  IF "From" \in DOMAIN parameters THEN parameters["From"] ELSE <<>>

\* extractClientIdentity, lines 201-210
ExtractClientIdentity(parameters) ==
  LET from == FromOf(parameters)
  IN IF StartsWith(from, ClientPrefix) THEN Substring(from, 7)
     ELSE IF from # <<>> THEN from ELSE Unknown

\* the messages of the errors the hook throws itself (lines 149, 415)
NoActiveCall == "No active call"
DeviceNotInitialized == "Device not initialized"

\* what a provider method throws
ProviderFault == "provider fault"

\* ----------------------------------------------- ReservationList helpers
\* no handleStartCall is in flight
IdleStart == [pc |-> "idle", res |-> Null]

\* no recoverFromRefresh is in flight; found: the ongoing reservations in the
\* list it read, wrote: those it has sent the write of "completed" for
\* res: the one it is writing
IdleRecovery == [pc |-> "idle", res |-> Null, found |-> {}, wrote |-> {}]

\* before the first render has committed: refs.lastCallStatus is "" (line 35)
Unmounted ==
  [status |-> "", active |-> Null, init |-> FALSE,
   res |-> [r \in ReservationIds |-> "absent"]]

\* the values the dependency arrays of the effects are compared on
Current ==
  [status |-> callStatus, active |-> activeCall, init |-> isInitialized,
   res |-> reservations]

\* every effect of the last render has run; an unmounted component renders
\* no more
Flushed == ~mounted \/ rendered = Current

\* reservations.find(res => res.id === refs.current.activeCall), lines 171-174
ListIds(list) == {r \in ReservationIds : list[r] # "absent"}

\* the deadline test of checkEndTime (lines 171-184) and of the 1 s interval
\* (lines 211-226) for reservation a, looked up in the ids found
DeadlineReached(a, found) ==
  a # Null /\ a \in found /\ today = ReservationDate /\ clock # "within"

\* isCallTimeValid, lines 383-403: the end minute itself is still valid
IsCallTimeValid(r) ==
  /\ activeCall = Null
  /\ today = ReservationDate
  /\ \/ reservations[r] = "scheduled"
     \/ reservations[r] = "ongoing" /\ recoveredFromRefresh
  /\ clock \in {"within", "due", "overdue"}

\* (mutant) the duration is not passed on
NoDuration(d) == 0

\* cleanupCall, lines 100-102
FinalDuration(d) == IF d > 0 THEN d ELSE 0

\* how a request of updateReservation (reservationApi.ts, lines 86-104) ends:
\* the store took the write, the request failed, or the tunnel answered with
\* its authentication page (the client rejects with "Ngrok authentication
\* required", part_000 lines 610-618)
WriteOutcomes == {"ok", "failed", "ngrok"}

\* the outcomes with the local URL (config.api.useNgrok false)
Outcome(written) == IF written THEN "ok" ELSE "failed"

\* cleanupCall(true), lines 93-104: with a bound reservation the write is begun
WritesAfterCleanup(w, a) == IF a = Null THEN w ELSE [w EXCEPT ![a] = @ + 1]

\* the server's /update-expired (reservationApi.ts, lines 133-141): ongoing
\* reservations past their end time become completed
SweepExpired(st) ==
  [r \in ReservationIds |->
     IF st[r] = "ongoing" /\ clock # "within" THEN "completed" ELSE st[r]]

\* ---------------------------------------------------------------- Init
\* no credential has been fetched: no timeout is pending, no callback suspended
TokenIdle ==
  /\ tokenRefreshTimerRef = "none"
  /\ tokenTimers = [refresh |-> 0, backoff |-> 0]
  /\ refreshes = [token |-> 0, update |-> 0]

\* the hook as constructed
HookConstructed ==
  /\ identity = ""
  /\ callStatus = "closed"
  /\ error = ""
  /\ isMuted = FALSE
  /\ isInitialized = FALSE
  /\ remoteIdentity = ""
  /\ deviceRef = Null
  /\ activeCallRef = Null
  /\ inits = [i \in InitSlots |-> IdleInit]
  /\ pendingConnects = 0
  /\ settleTimers = 0
  /\ TokenIdle
  /\ devices = [d \in DeviceIds |-> "free"]
  /\ sessions = [s \in SessionIds |-> FreeSession]

\* the components as constructed, on the UTC date date with the store stored
Mounted(date, stored) ==
  /\ observed = <<"closed">>
  /\ reservations = [r \in ReservationIds |-> "absent"]
  /\ activeCall = Null
  /\ callTimer = FALSE
  /\ timerReservations = {}
  /\ rendered = Unmounted
  /\ hsc = IdleStart
  /\ endWrites = [r \in ReservationIds |-> 0]
  /\ store = stored
  /\ clock = "within"
  /\ today = date
  /\ polled = FALSE
  /\ ticked = FALSE
  /\ openAtEnd = Null
  /\ dialedLate = FALSE
  /\ recovery = IdleRecovery
  /\ hasInitiallyLoaded = FALSE
  /\ recoveredFromRefresh = FALSE
  /\ ongoingAtLoad = {r \in ReservationIds : stored[r] = "ongoing"}
  /\ duration = 0
  /\ callStartTime = Unset
  /\ sentDuration = [r \in ReservationIds |-> Unset]
  /\ apiAlert = FALSE
  /\ mounted = TRUE
  /\ pollTimer = FALSE
  /\ refreshTimer = FALSE

Constructed(date, stored) == HookConstructed /\ Mounted(date, stored)

\* no operation is applied on its own
NoProbe == [pc |-> "none"]

InitOn(date, stored) == Constructed(date, stored) /\ probe = NoProbe

Init == InitOn(ReservationDate, InitialStore)

\* ------------------------------------------------------------ initialize
\* initialize, lines 270-289: up to the await of getToken
HookInitialize(i, id) ==
  /\ inits[i].pc = "idle"
  /\ \A j \in InitSlots : j < i => inits[j].pc # "idle"
  /\ identity' = id
  /\ error' = ""
  /\ callStatus' = "initializing"
  /\ devices' = ProviderDestroy(devices, deviceRef, inits)
  /\ deviceRef' = Null
  /\ sessions' = CleanupSessions(sessions, activeCallRef)
  /\ activeCallRef' = ClearedCallRef(activeCallRef)
  /\ isMuted' = FALSE
  /\ remoteIdentity' = ""
  /\ inits' = [inits EXCEPT ![i] = [pc |-> "token", ident |-> id, dev |-> Null]]
  /\ UNCHANGED <<isInitialized, pendingConnects, settleTimers, tokenVars>>

\* initialize() called by a component that does nothing else in the step
InitializeStart(i, id) == HookInitialize(i, id) /\ UNCHANGED outerVars

\* initialize's catch, lines 376-400, for the invocation in slot i
InitializeFail(i) ==
  /\ error' = ErrInit
  /\ callStatus' = "error"
  /\ isInitialized' = FALSE
  /\ inits' = [inits EXCEPT ![i] = IdleInit]
  /\ devices' = Collected(ProviderDestroy(devices, deviceRef, inits'), inits')
  /\ deviceRef' = Null
  /\ UNCHANGED <<outerVars, identity, isMuted, remoteIdentity, activeCallRef,
                 pendingConnects, settleTimers, sessions, tokenVars>>

\* getToken resolved with a token, lines 289-302: on to the await of getUserMedia
InitTokenOk(i) ==
  /\ inits[i].pc = "token"
  /\ inits' = [inits EXCEPT ![i].pc = "mic"]
  /\ UNCHANGED <<outerVars, hookVars, refVars, pendingConnects, settleTimers, provVars,
                 tokenVars>>

\* getToken rejected, or resolved with an empty token (lines 289-293)
InitTokenFail(i) ==
  /\ inits[i].pc = "token"
  /\ InitializeFail(i)

\* getUserMedia resolved, lines 309-365: the device is constructed, stored,
\* given its listeners and asked to register
HookMicGranted(i) ==
  /\ inits[i].pc = "mic"
  /\ FreeDeviceIds # {}
  /\ LET d == Min(FreeDeviceIds) IN
       /\ devices' = [devices EXCEPT ![d] = "registering"]
       /\ deviceRef' = d
       /\ inits' = [inits EXCEPT ![i] = [@ EXCEPT !.pc = "register", !.dev = d]]
  /\ SetupTokenRefresh(tokenRefreshTimerRef, tokenTimers)
  /\ UNCHANGED <<hookVars, activeCallRef, pendingConnects, settleTimers, sessions,
                 refreshes>>

InitMicGranted(i) == HookMicGranted(i) /\ UNCHANGED outerVars

\* getUserMedia rejected, lines 315-320
InitMicDenied(i) ==
  /\ inits[i].pc = "mic"
  /\ InitializeFail(i)

\* device.on("registered"), lines 332-335
OnRegistered(d) ==
  /\ devices[d] = "registering"
  /\ devices' = [devices EXCEPT ![d] = "registered"]
  /\ callStatus' = "ready"
  /\ error' = ErrorAfterStatus("ready", error)
  /\ UNCHANGED <<identity, isMuted, isInitialized, remoteIdentity, refVars, asyncVars,
                 sessions>>

DeviceRegistered(d) == OnRegistered(d) /\ UNCHANGED outerVars

\* device.on("error"), lines 337-340
OnDeviceError(d) ==
  /\ devices[d] \in {"registering", "registered"}
  /\ callStatus' = "error"
  /\ UNCHANGED <<identity, error, isMuted, isInitialized, remoteIdentity, refVars,
                 asyncVars, provVars>>

DeviceError(d) == OnDeviceError(d) /\ UNCHANGED outerVars

\* device.register() resolved, lines 365-367
HookRegisterOk(i) ==
  /\ inits[i].pc = "register"
  /\ devices[inits[i].dev] = "registered"
  /\ isInitialized' = TRUE
  /\ inits' = [inits EXCEPT ![i] = IdleInit]
  /\ UNCHANGED <<identity, callStatus, error, isMuted, remoteIdentity, refVars,
                 pendingConnects, settleTimers, provVars, tokenVars>>

InitRegisterOk(i) == HookRegisterOk(i) /\ UNCHANGED outerVars

\* device.register() rejected, lines 368-375
InitRegisterFail(i) ==
  /\ inits[i].pc = "register"
  /\ devices[inits[i].dev] \in {"registering", "destroyed"}
  /\ InitializeFail(i)

\* device.on("incoming"), lines 342-358; from: what extractClientIdentity yields
OnIncoming(d, from) ==
  /\ devices[d] = "registered"
  /\ pendingConnects < Cardinality(FreeSessionIds)
  /\ LET s == Min(FreeSessionIds) IN
       /\ sessions' = [CleanupSessions(sessions, activeCallRef) EXCEPT
                         ![s] = [st |-> "live", dir |-> "in", phase |-> "new"]]
       /\ activeCallRef' = s
  /\ isMuted' = FALSE
  /\ remoteIdentity' = from
  /\ callStatus' = "pending"
  /\ error' = ErrorAfterStatus("pending", error)
  /\ UNCHANGED <<identity, isInitialized, deviceRef, asyncVars, devices>>

Incoming(d, from) == OnIncoming(d, from) /\ UNCHANGED outerVars

\* -------------------------------------------------------------- makeCall
\* makeCall, lines 413-445: up to the await of device.connect
HookMakeCall(to, callType) ==
  /\ deviceRef # Null
  /\ pendingConnects < Cardinality(FreeSessionIds)
  /\ sessions' = CleanupSessions(sessions, activeCallRef)
  /\ activeCallRef' = ClearedCallRef(activeCallRef)
  /\ isMuted' = FALSE
  /\ callStatus' = "connecting"
  /\ error' = ErrorAfterStatus("connecting", error)
  /\ remoteIdentity' = to
  /\ pendingConnects' = pendingConnects + 1
  /\ UNCHANGED <<identity, isInitialized, deviceRef, inits, settleTimers, devices, tokenVars>>

\* makeCall() called by a component that does nothing else in the step
MakeCallStart(to, callType) == HookMakeCall(to, callType) /\ UNCHANGED outerVars

\* device.connect resolved with a call, lines 447-453
HookConnectOk ==
  /\ pendingConnects > 0
  /\ LET s == Min(FreeSessionIds) IN
       /\ sessions' = [sessions EXCEPT
                         ![s] = [st |-> "live", dir |-> "out", phase |-> "new"]]
       /\ activeCallRef' = s
  /\ pendingConnects' = pendingConnects - 1
  /\ UNCHANGED <<hookVars, deviceRef, inits, settleTimers, devices, tokenVars>>

\* makeCall() resolves towards a caller that does nothing with it
ConnectOk == HookConnectOk /\ UNCHANGED outerVars

\* the status makeCall's catch leaves: updateCallStatus("ready") and then
\* handleError, lines 456-457
MakeCallFailStatus == "error"

\* device.connect rejected or resolved with no call, lines 447-459
HookConnectFail ==
  /\ pendingConnects > 0
  /\ pendingConnects' = pendingConnects - 1
  /\ sessions' = CleanupSessions(sessions, activeCallRef)
  /\ activeCallRef' = ClearedCallRef(activeCallRef)
  /\ isMuted' = FALSE
  /\ remoteIdentity' = ""
  /\ callStatus' = MakeCallFailStatus
  /\ error' = ErrMake
  /\ UNCHANGED <<identity, isInitialized, deviceRef, inits, settleTimers, devices, tokenVars>>

\* makeCall() rejects towards a caller that does nothing with it
ConnectFail == HookConnectFail /\ UNCHANGED outerVars

\* ------------------------------------------------------- session events
\* call.on("ringing"), lines 216-219
SessionRinging(s) ==
  /\ sessions[s].st = "live" /\ sessions[s].dir = "out" /\ sessions[s].phase = "new"
  /\ sessions' = [sessions EXCEPT ![s].phase = "ringing"]
  /\ callStatus' = "ringing"
  /\ error' = ErrorAfterStatus("ringing", error)
  /\ UNCHANGED <<outerVars, identity, isMuted, isInitialized, remoteIdentity, refVars,
                 asyncVars, devices>>

\* call.on("accept"), lines 221-224
SessionAccept(s) ==
  /\ sessions[s].st = "live"
  /\ \/ sessions[s].dir = "out" /\ sessions[s].phase \in {"new", "ringing"}
     \/ sessions[s].dir = "in" /\ sessions[s].phase = "accepting"
  /\ sessions' = [sessions EXCEPT ![s].phase = "open"]
  /\ callStatus' = "open"
  /\ error' = ErrorAfterStatus("open", error)
  /\ UNCHANGED <<outerVars, identity, isMuted, isInitialized, remoteIdentity, refVars,
                 asyncVars, devices>>

\* call.on("reconnecting"), lines 239-243
SessionReconnecting(s) ==
  /\ sessions[s].st = "live" /\ sessions[s].phase = "open"
  /\ sessions' = [sessions EXCEPT ![s].phase = "reconnecting"]
  /\ callStatus' = "reconnecting"
  /\ error' = ErrorAfterStatus("reconnecting", error)
  /\ UNCHANGED <<outerVars, identity, isMuted, isInitialized, remoteIdentity, refVars,
                 asyncVars, devices>>

\* call.on("reconnected"), lines 245-248
SessionReconnected(s) ==
  /\ sessions[s].st = "live" /\ sessions[s].phase = "reconnecting"
  /\ sessions' = [sessions EXCEPT ![s].phase = "open"]
  /\ callStatus' = "open"
  /\ error' = ErrorAfterStatus("open", error)
  /\ UNCHANGED <<outerVars, identity, isMuted, isInitialized, remoteIdentity, refVars,
                 asyncVars, devices>>

\* the listener of disconnect / cancel / reject, lines 250-265, run on the
\* provider's sessions sess
TerminalListener(sess) ==
  /\ settleTimers < MaxTimers
  /\ callStatus' = "closed"
  /\ error' = ErrorAfterStatus("closed", error)
  /\ sessions' = CleanupSessions(sess, activeCallRef)
  /\ activeCallRef' = ClearedCallRef(activeCallRef)
  /\ isMuted' = FALSE
  /\ remoteIdentity' = ""
  /\ settleTimers' = settleTimers + 1
  /\ UNCHANGED <<outerVars, identity, isInitialized, deviceRef, inits, pendingConnects, devices,
                 tokenVars>>

\* the provider ends a live session (remote hang-up, cancel or reject) and
\* emits the terminal event
SessionTerminal(s) ==
  /\ sessions[s].st = "live"
  /\ TerminalListener([sessions EXCEPT ![s] = FreeSession])

\* the terminal event of a session the program itself disconnected or rejected
SessionDisconnected(s) ==
  /\ sessions[s].st = "disc"
  /\ TerminalListener([sessions EXCEPT ![s] = FreeSession])

\* call.on("error"), lines 226-232
SessionError(s) ==
  /\ sessions[s].st = "live"
  /\ settleTimers < MaxTimers
  /\ callStatus' = "error"
  /\ error' = ErrCall
  /\ sessions' = CleanupSessions(sessions, activeCallRef)
  /\ activeCallRef' = ClearedCallRef(activeCallRef)
  /\ isMuted' = FALSE
  /\ remoteIdentity' = ""
  /\ settleTimers' = settleTimers + 1
  /\ UNCHANGED <<outerVars, identity, isInitialized, deviceRef, inits, pendingConnects, devices,
                 tokenVars>>

\* a settle timer fires, lines 231 and 261-263
SettleTimerFire ==
  /\ settleTimers > 0
  /\ settleTimers' = settleTimers - 1
  /\ callStatus' = SettleStatus
  /\ error' = ErrorAfterStatus(SettleStatus, error)
  /\ UNCHANGED <<outerVars, identity, isMuted, isInitialized, remoteIdentity, refVars,
                 inits, pendingConnects, provVars, tokenVars>>

\* ------------------------------------------------------ user operations
\* the catch of answerCall / rejectCall / endCall, lines 476-479, 486-489, 496-499
HookOperationFailed(prefix) ==
  /\ callStatus' = "error"
  /\ error' = prefix
  /\ sessions' = CleanupSessions(sessions, activeCallRef)
  /\ activeCallRef' = ClearedCallRef(activeCallRef)
  /\ isMuted' = FALSE
  /\ remoteIdentity' = ""
  /\ UNCHANGED <<identity, isInitialized, deviceRef, asyncVars, devices>>

OperationFailed(prefix) == HookOperationFailed(prefix) /\ UNCHANGED outerVars

\* answerCall, lines 471-480; throws: checkActiveCall or accept() raised
HookAnswerCall(throws) ==
  IF activeCallRef = Null \/ throws
  THEN HookOperationFailed(ErrAnswer)
  ELSE /\ sessions' =
            IF sessions[activeCallRef].st = "live" /\ sessions[activeCallRef].dir = "in"
               /\ sessions[activeCallRef].phase = "new"
            THEN [sessions EXCEPT ![activeCallRef].phase = "accepting"]
            ELSE sessions
       /\ UNCHANGED <<hookVars, refVars, asyncVars, devices>>

AnswerCall(throws) == HookAnswerCall(throws) /\ UNCHANGED outerVars

\* rejectCall, lines 482-490
HookRejectCall(throws) ==
  IF activeCallRef = Null \/ throws
  THEN HookOperationFailed(ErrReject)
  ELSE /\ sessions' =
            IF sessions[activeCallRef].st = "live" /\ sessions[activeCallRef].dir = "in"
               /\ sessions[activeCallRef].phase = "new"
            THEN ProviderDisconnect(sessions, activeCallRef)
            ELSE sessions
       /\ UNCHANGED <<hookVars, refVars, asyncVars, devices>>

RejectCall(throws) == HookRejectCall(throws) /\ UNCHANGED outerVars

\* endCall, lines 492-500
HookEndCall(throws) ==
  IF activeCallRef = Null \/ throws
  THEN HookOperationFailed(ErrEnd)
  ELSE /\ sessions' = CleanupSessions(sessions, activeCallRef)
       /\ UNCHANGED <<hookVars, refVars, asyncVars, devices>>

\* endCall() called by a component that does nothing else in the step
EndCall(throws) == HookEndCall(throws) /\ UNCHANGED outerVars

\* (mutant) the flag is passed on as it is
SameMuteState(muted) == muted

\* toggleMute, line 505
NewMuteState(muted) == ~muted

\* toggleMute, lines 502-512; throws: checkActiveCall or mute() raised
HookToggleMute(throws) ==
  IF activeCallRef = Null \/ throws
  THEN /\ callStatus' = "error"
       /\ error' = ErrMute
       /\ UNCHANGED <<identity, isMuted, isInitialized, remoteIdentity, refVars,
                      asyncVars, provVars>>
  ELSE /\ isMuted' = NewMuteState(isMuted)
       /\ UNCHANGED <<identity, callStatus, error, isInitialized, remoteIdentity,
                      refVars, asyncVars, provVars>>

ToggleMute(throws) == HookToggleMute(throws) /\ UNCHANGED outerVars

\* --------------------------------------------------------- token refresh
\* the timeout of TOKEN_REFRESH_INTERVAL fires, lines 177-180: up to the await
\* of getToken
RefreshTimerFire(held) ==
  /\ CanFire("refresh", held)
  /\ refreshes.token + refreshes.update < MaxRefreshes
  /\ tokenTimers' = [tokenTimers EXCEPT !.refresh = @ - 1]
  /\ tokenRefreshTimerRef' = RefAfterFire(held)
  /\ refreshes' = [refreshes EXCEPT !.token = @ + 1]
  /\ UNCHANGED <<outerVars, hookVars, refVars, inits, pendingConnects, settleTimers,
                 provVars>>

\* getToken resolved, lines 180-188: with a device, up to the await of
\* updateToken; with none, setupTokenRefresh at once
RefreshTokenOk ==
  /\ refreshes.token > 0
  /\ IF deviceRef # Null
     THEN /\ refreshes' = [token |-> refreshes.token - 1, update |-> refreshes.update + 1]
          /\ UNCHANGED <<tokenRefreshTimerRef, tokenTimers>>
     ELSE /\ refreshes' = [refreshes EXCEPT !.token = @ - 1]
          /\ SetupTokenRefresh(tokenRefreshTimerRef, tokenTimers)
  /\ UNCHANGED <<outerVars, hookVars, refVars, inits, pendingConnects, settleTimers,
                 provVars>>

\* updateToken resolved, lines 184-188
RefreshUpdateOk ==
  /\ refreshes.update > 0
  /\ refreshes' = [refreshes EXCEPT !.update = @ - 1]
  /\ SetupTokenRefresh(tokenRefreshTimerRef, tokenTimers)
  /\ UNCHANGED <<outerVars, hookVars, refVars, inits, pendingConnects, settleTimers,
                 provVars>>

\* getToken or updateToken rejected, lines 189-195: a timeout of 60000 ms is
\* armed and stored in the ref, whatever the ref held
RefreshFail(at) ==
  /\ refreshes[at] > 0
  /\ refreshes' = [refreshes EXCEPT ![at] = @ - 1]
  /\ tokenTimers' = [tokenTimers EXCEPT !.backoff = @ + 1]
  /\ tokenTimers'.refresh + tokenTimers'.backoff <= MaxTokenTimers
  /\ tokenRefreshTimerRef' = "backoff"
  /\ callStatus' = KeptStatus(callStatus)
  /\ UNCHANGED <<outerVars, identity, error, isMuted, isInitialized, remoteIdentity,
                 refVars, inits, pendingConnects, settleTimers, provVars>>

\* the timeout of 60000 ms fires, lines 192-194: setupTokenRefresh(identity)
BackoffTimerFire(held) ==
  /\ CanFire("backoff", held)
  /\ SetupTokenRefresh(RefAfterFire(held), [tokenTimers EXCEPT !.backoff = @ - 1])
  /\ UNCHANGED <<outerVars, hookVars, refVars, inits, pendingConnects, settleTimers,
                 provVars, refreshes>>

\* ---------------------------------------------------------------- unmount
\* the cleanup of the hook's effect, lines 105-123
HookUnmount ==
  /\ mounted
  /\ mounted' = FALSE
  /\ tokenTimers' = ClearedTimers(tokenRefreshTimerRef, tokenTimers)
  /\ tokenRefreshTimerRef' = "none"
  /\ sessions' = CleanupSessions(sessions, activeCallRef)
  /\ activeCallRef' = ClearedCallRef(activeCallRef)
  /\ isMuted' = FALSE
  /\ remoteIdentity' = ""
  /\ devices' = ProviderDestroy(devices, deviceRef, inits)
  /\ deviceRef' = Null
  /\ UNCHANGED <<identity, callStatus, error, isInitialized, inits, pendingConnects,
                 settleTimers, refreshes>>

\* the component using the hook is unmounted
Unmount ==
  /\ HookUnmount
  /\ UNCHANGED <<observed, recVars, durVars, apiAlert, probe, refreshTimer, listVars,
                 worldVars>>

\* ------------------------------------------------------------------ Spec
\* initialize() called while no other invocation of it is in flight
InitializeAlone(id) ==
  /\ \A i \in InitSlots : inits[i].pc = "idle"
  /\ InitializeStart(1, id)

Next ==
  \/ \E id \in Identities : InitializeAlone(id)
  \/ \E i \in InitSlots : InitTokenOk(i)
  \/ \E i \in InitSlots : InitTokenFail(i)
  \/ \E i \in InitSlots : InitMicGranted(i)
  \/ \E i \in InitSlots : InitMicDenied(i)
  \/ \E i \in InitSlots : InitRegisterOk(i)
  \/ \E i \in InitSlots : InitRegisterFail(i)
  \/ \E d \in DeviceIds : DeviceRegistered(d)
  \/ \E d \in DeviceIds : DeviceError(d)
  \/ \E d \in DeviceIds, from \in Callers : Incoming(d, from)
  \/ \E to \in Destinations, t \in CallTypes : MakeCallStart(to, t)
  \/ ConnectOk
  \/ ConnectFail
  \/ \E s \in SessionIds : SessionRinging(s)
  \/ \E s \in SessionIds : SessionAccept(s)
  \/ \E s \in SessionIds : SessionReconnecting(s)
  \/ \E s \in SessionIds : SessionReconnected(s)
  \/ \E s \in SessionIds : SessionTerminal(s)
  \/ \E s \in SessionIds : SessionDisconnected(s)
  \/ \E s \in SessionIds : SessionError(s)
  \/ SettleTimerFire
  \/ \E th \in BOOLEAN : AnswerCall(th)
  \/ \E th \in BOOLEAN : RejectCall(th)
  \/ \E th \in BOOLEAN : EndCall(th)
  \/ \E th \in BOOLEAN : ToggleMute(th)

\* the call lifecycle; initialize() is not called while another is in flight
Spec == Init /\ [][Next]_vars

\* the settle timers are browser timeouts: once armed they fire
FairSpec == Spec /\ WF_vars(SettleTimerFire)

\* overlapping initialize() calls, before any call is made or received
InitNext ==
  \/ \E i \in InitSlots, id \in Identities : InitializeStart(i, id)
  \/ \E i \in InitSlots : InitTokenOk(i)
  \/ \E i \in InitSlots : InitTokenFail(i)
  \/ \E i \in InitSlots : InitMicGranted(i)
  \/ \E i \in InitSlots : InitMicDenied(i)
  \/ \E i \in InitSlots : InitRegisterOk(i)
  \/ \E i \in InitSlots : InitRegisterFail(i)
  \/ \E d \in DeviceIds : DeviceRegistered(d)
  \/ \E d \in DeviceIds : DeviceError(d)

InitSpec == Init /\ [][InitNext]_vars

\* initialize() called for different identities, the calls overlapping; probe
\* holds, for each device, the identity its token was fetched for (getToken,
\* lines 153-169, posts the identity; new Device(token), line 322)
OverlapIdentities == {"alice", "bob"}

NoTokens == [pc |-> "tokens", of |-> [d \in DeviceIds |-> ""]]

IdentityInit == Constructed(ReservationDate, InitialStore) /\ probe = NoTokens

\* getUserMedia resolved, lines 309-365: the device is constructed with the
\* token this invocation fetched for its userIdentity
IdentMicGranted(i) ==
  /\ HookMicGranted(i)
  /\ probe' = [probe EXCEPT !.of[Min(FreeDeviceIds)] = inits[i].ident]
  /\ UNCHANGED <<observed, recVars, durVars, apiAlert, mountVars, listVars, worldVars>>

IdentityNext ==
  \/ \E i \in InitSlots, id \in OverlapIdentities : InitializeStart(i, id)
  \/ \E i \in InitSlots : InitTokenOk(i)
  \/ \E i \in InitSlots : InitTokenFail(i)
  \/ \E i \in InitSlots : IdentMicGranted(i)
  \/ \E i \in InitSlots : InitMicDenied(i)
  \/ \E i \in InitSlots : InitRegisterOk(i)
  \/ \E i \in InitSlots : InitRegisterFail(i)
  \/ \E d \in DeviceIds : DeviceRegistered(d)

IdentitySpec == IdentityInit /\ [][IdentityNext]_vars

\* the hook with its credential refreshed in the background, through a call
\* and up to and after the unmount of the component
RefreshNext ==
  \/ \E id \in Identities : mounted /\ InitializeAlone(id)
  \/ \E i \in InitSlots : InitTokenOk(i)
  \/ \E i \in InitSlots : InitTokenFail(i)
  \/ \E i \in InitSlots : InitMicGranted(i)
  \/ \E i \in InitSlots : InitRegisterOk(i)
  \/ \E i \in InitSlots : InitRegisterFail(i)
  \/ \E d \in DeviceIds : DeviceRegistered(d)
  \/ \E to \in Destinations : mounted /\ MakeCallStart(to, "direct")
  \/ ConnectOk
  \/ \E s \in SessionIds : SessionAccept(s)
  \/ \E s \in SessionIds : SessionTerminal(s)
  \/ \E s \in SessionIds : SessionDisconnected(s)
  \/ SettleTimerFire
  \/ mounted /\ activeCallRef # Null /\ ToggleMute(FALSE)
  \/ \E held \in BOOLEAN : RefreshTimerFire(held)
  \/ RefreshTokenOk
  \/ RefreshUpdateOk
  \/ \E at \in {"token", "update"} : RefreshFail(at)
  \/ \E held \in BOOLEAN : BackoffTimerFire(held)
  \/ Unmount

RefreshSpec == Init /\ [][RefreshNext]_vars

\* ------------------------------------------------------------- scenario
\* One run of the hook as a component drives it: initialize(id), the provider
\* registers, makeCall, the provider rings, accepts and disconnects.  Every
\* status the hook commits is rendered before the next event is handled.
Rendered == observed[Len(observed)] = callStatus

Render ==
  /\ ~Rendered
  /\ observed' = Append(observed, callStatus)
  /\ UNCHANGED <<ctrlVars, quietVars, listVars, worldVars>>

ScInitialize(id) == Rendered /\ Len(observed) = 1 /\ InitializeAlone(id)
ScTokenOk == Rendered /\ InitTokenOk(1)
ScMicGranted == Rendered /\ InitMicGranted(1)
ScRegistered == Rendered /\ \E d \in DeviceIds : DeviceRegistered(d)
ScRegisterOk == Rendered /\ InitRegisterOk(1)
ScMakeCall(to, t) ==
  /\ Rendered /\ Len(observed) = 3 /\ isInitialized /\ callStatus = "ready"
  /\ MakeCallStart(to, t)
ScConnectOk == Rendered /\ ConnectOk
ScRinging == Rendered /\ \E s \in SessionIds : SessionRinging(s)
ScAccept ==
  Rendered /\ \E s \in SessionIds : sessions[s].phase = "ringing" /\ SessionAccept(s)
ScToggleMute == Rendered /\ activeCallRef # Null /\ ToggleMute(FALSE)
ScDisconnect ==
  Rendered /\ \E s \in SessionIds : sessions[s].phase = "open" /\ SessionTerminal(s)
ScSettle == Rendered /\ SettleTimerFire

ScenarioNext ==
  \/ \E id \in ScenarioIdentities : ScInitialize(id)
  \/ ScTokenOk
  \/ ScMicGranted
  \/ ScRegistered
  \/ ScRegisterOk
  \/ \E to \in ScenarioDestinations, t \in CallTypes : ScMakeCall(to, t)
  \/ ScConnectOk
  \/ ScRinging
  \/ ScAccept
  \/ ScToggleMute
  \/ ScDisconnect
  \/ ScSettle
  \/ Render

ScenarioSpec == Init /\ [][ScenarioNext]_vars


\* ------------------------------------------------------- ReservationList
\* The component mounted for Username.  After every step that changes what
\* the effects depend on, the effects run before anything else is handled.

\* the dependencies of the effect "Initialize Twilio" (line 150) changed
InitDepsChanged ==
  rendered.status = "" \/ rendered.init # isInitialized \/ rendered.active # activeCall

\* the dependencies of the effect "Handle call status changes" (line 162) changed
StatusDepsChanged ==
  rendered.status = "" \/ rendered.status # callStatus \/ rendered.active # activeCall

\* the dependencies of the effect "Check for call end time" (line 193) changed
PollDepsChanged ==
  rendered.status = "" \/ rendered.status # callStatus \/ rendered.res # reservations

\* the effect "Initialize Twilio", lines 130-150, up to initialize's first await,
\* and "Periodically refresh reservations", lines 282-299, which arms the
\* interval (its fetchReservations and the interval's are FetchReservations)
InitializeTwilio ==
  /\ ~Flushed
  /\ InitDepsChanged /\ ~isInitialized
  /\ rendered' = Current
  /\ \E i \in InitSlots : HookInitialize(i, Username)
  /\ refreshTimer' = TRUE
  /\ UNCHANGED <<observed, recVars, durVars, apiAlert, probe, mounted, reservations,
                 activeCall, callTimer, timerReservations, hsc, endWrites, worldVars,
                 pollTimer>>

\* the effects "Handle call status changes" (lines 153-162) and "Check for
\* call end time" (lines 165-193, its immediate checkEndTime) of one render
Effects ==
  /\ ~Flushed
  /\ ~(InitDepsChanged /\ ~isInitialized)
  /\ rendered' = Current
  /\ LET doCleanup == StatusDepsChanged /\ rendered.status = "open" /\ callStatus # "open"
         doStart == /\ StatusDepsChanged /\ callStatus = "open"
                    /\ activeCall # Null /\ ~callTimer
         doCheck == PollDepsChanged /\ callStatus = "open" /\ activeCall # Null
         doEnd == doCheck /\ DeadlineReached(activeCall, ListIds(reservations))
     IN /\ callTimer' = IF doCleanup \/ doEnd THEN FALSE ELSE (callTimer \/ doStart)
        /\ timerReservations' =
             IF doCleanup \/ doEnd THEN {}
             ELSE IF doStart THEN ListIds(reservations) ELSE timerReservations
        /\ endWrites' = IF doCleanup \/ doEnd
                        THEN WritesAfterCleanup(endWrites, activeCall) ELSE endWrites
        /\ \A r \in ReservationIds : endWrites'[r] <= MaxWrites
        /\ polled' = (polled \/ (doCheck /\ clock = "due"))
        /\ pollTimer' = IF PollDepsChanged THEN callStatus = "open" /\ activeCall # Null
                        ELSE pollTimer
        /\ openAtEnd' = IF doCleanup THEN Null ELSE openAtEnd
        /\ IF doEnd THEN \E th \in BOOLEAN : HookEndCall(th) ELSE UNCHANGED ctrlVars
        /\ LET started == doStart /\ callStartTime = Unset
               timed == IF started THEN 0 ELSE duration
               unbound == (doCleanup \/ doEnd) /\ activeCall = Null
           IN /\ duration' = IF unbound THEN 0 ELSE timed
              /\ callStartTime' = IF unbound THEN Unset
                                  ELSE IF started THEN 0 ELSE callStartTime
              /\ sentDuration' =
                   IF (doCleanup \/ doEnd) /\ activeCall # Null
                   THEN [sentDuration EXCEPT ![activeCall] = FinalDuration(timed)]
                   ELSE sentDuration
  /\ UNCHANGED <<reservations, activeCall, hsc, store, clock, today, ticked, dialedLate>>

\* the effects of one render while no reservation is left ongoing from an
\* earlier page: recoverFromRefresh then only reads the list
RunEffects == Effects /\ UNCHANGED stillVars

\* the effects of one render, with "Handle recovery after page refresh"
\* (lines 253-279) up to its await of getUserReservations
RecoveringEffects ==
  /\ Effects
  /\ recovery' = IF /\ rendered.init # isInitialized \/ rendered.status = ""
                    /\ isInitialized /\ ~hasInitiallyLoaded
                 THEN [recovery EXCEPT !.pc = "read"] ELSE recovery
  /\ UNCHANGED <<observed, hasInitiallyLoaded, recoveredFromRefresh, ongoingAtLoad,
                 apiAlert, probe, mountVars>>

\* fetchReservations, lines 58-79: the sweep of expired reservations, then the
\* list; swept and listed tell whether the two requests succeeded
Fetched(swept, listed) ==
  /\ Flushed
  /\ store' = IF swept THEN SweepExpired(store) ELSE store
  /\ reservations' = IF listed THEN store' ELSE [r \in ReservationIds |-> "absent"]
  /\ UNCHANGED <<ctrlVars, observed, activeCall, callTimer, timerReservations, rendered,
                 hsc, endWrites, clock, today, polled, ticked, histVars, pollTimer>>

\* fetchReservations as the refresh effect and its interval call it (lines
\* 282-299): the callback of the latest render, which resets the flag (66-68)
FetchReservations(swept, listed) ==
  /\ refreshTimer
  /\ Fetched(swept, listed)
  /\ recoveredFromRefresh' = IF listed THEN FALSE ELSE recoveredFromRefresh
  /\ UNCHANGED <<recovery, hasInitiallyLoaded, ongoingAtLoad, durVars, apiAlert, probe,
                 mountVars>>

\* recoverFromRefresh, lines 258-272: getUserReservations returned (listed
\* tells whether it succeeded, it yields [] otherwise); data.find picks one
\* ongoing reservation and the write of "completed" is sent, or there is none
\* and fetchReservations is called
RecoveryRead(listed) ==
  /\ Flushed
  /\ recovery.pc = "read"
  /\ LET ongoing == IF listed THEN {r \in ReservationIds : store[r] = "ongoing"} ELSE {}
     IN IF ongoing = {}
        THEN /\ recovery' = [recovery EXCEPT !.pc = "fetch"]
             /\ hasInitiallyLoaded' = TRUE
        ELSE /\ \E r \in ongoing :
                  recovery' = [pc |-> "write", res |-> r, found |-> ongoing,
                               wrote |-> recovery.wrote \cup {r}]
             /\ UNCHANGED hasInitiallyLoaded
  /\ UNCHANGED <<ctrlVars, observed, listVars, worldVars, recoveredFromRefresh,
                 ongoingAtLoad, durVars, apiAlert, probe, mountVars>>

\* recoverFromRefresh, lines 262-272: updateReservation returned (written
\* tells whether the store took the write; a failure is swallowed)
RecoveryWritten(written) ==
  /\ Flushed
  /\ recovery.pc = "write"
  /\ store' = IF written THEN [store EXCEPT ![recovery.res] = "completed"] ELSE store
  /\ recoveredFromRefresh' = TRUE
  /\ hasInitiallyLoaded' = TRUE
  /\ recovery' = [recovery EXCEPT !.pc = "fetch", !.res = Null]
  /\ UNCHANGED <<ctrlVars, observed, listVars, clock, today, polled, ticked, histVars,
                 ongoingAtLoad, durVars, apiAlert, probe, mountVars>>

\* the fetchReservations call of line 272: the callback of the render in which
\* the effect ran, whose recoveredFromRefresh is false, so the flag is kept
RecoveryFetched(swept, listed) ==
  /\ recovery.pc = "fetch"
  /\ Fetched(swept, listed)
  /\ recovery' = [recovery EXCEPT !.pc = "idle"]
  /\ UNCHANGED <<hasInitiallyLoaded, recoveredFromRefresh, ongoingAtLoad, durVars, apiAlert, probe,
                 mountVars>>

\* handleStartCall, lines 320-336: the Start Call button of r (lines 503-509)
\* is pressed; up to the await of the write of "ongoing"
HandleStartCall(r) ==
  /\ mounted /\ Flushed
  /\ hsc.pc = "idle"
  /\ IsCallTimeValid(r) /\ isInitialized
  /\ hsc' = [pc |-> "mark", res |-> r]
  /\ UNCHANGED <<ctrlVars, sideVars, reservations, activeCall, callTimer,
                 timerReservations, rendered, endWrites, worldVars, pollTimer>>

\* handleStartCall, lines 336-344: updateReservation returned (written tells
\* whether the store took the write); the reservation is bound and makeCall invoked
StartCallMarkReturned(outcome) ==
  /\ hsc.pc = "mark"
  /\ store' = IF outcome = "ok" THEN [store EXCEPT ![hsc.res] = "ongoing"] ELSE store
  /\ apiAlert' = (apiAlert \/ outcome = "ngrok")
  /\ activeCall' = hsc.res
  /\ IF deviceRef = Null
     THEN hsc' = [hsc EXCEPT !.pc = "revert"] /\ UNCHANGED ctrlVars
     ELSE /\ hsc' = [hsc EXCEPT !.pc = "dial"]
          /\ \E to \in Destinations : HookMakeCall(to, "phone")
  /\ dialedLate' = (dialedLate \/ clock # "within")
  /\ duration' = 0
  /\ callStartTime' = 0
  /\ UNCHANGED <<observed, recVars, probe, sentDuration, reservations, callTimer,
                 timerReservations, rendered, endWrites, clock, today, polled, ticked,
                 openAtEnd, pollTimer, mountVars>>

\* the same with the local URL
StartCallMarked(written) == StartCallMarkReturned(Outcome(written))

\* handleStartCall, lines 344-353: makeCall resolved
StartCallConnected ==
  /\ hsc.pc = "dial"
  /\ HookConnectOk
  /\ hsc' = IdleStart
  /\ UNCHANGED <<sideVars, reservations, activeCall, callTimer, timerReservations,
                 rendered, endWrites, worldVars, pollTimer>>

\* handleStartCall, lines 345-346: makeCall rejected; up to the await of the
\* write of "scheduled"
StartCallFailed ==
  /\ hsc.pc = "dial"
  /\ HookConnectFail
  /\ hsc' = [hsc EXCEPT !.pc = "revert"]
  /\ UNCHANGED <<sideVars, reservations, activeCall, callTimer, timerReservations,
                 rendered, endWrites, worldVars, pollTimer>>

\* handleStartCall, lines 346-358: updateReservation returned; the binding is dropped
StartCallReverted(written) ==
  /\ hsc.pc = "revert"
  /\ store' = IF written THEN [store EXCEPT ![hsc.res] = "scheduled"] ELSE store
  /\ activeCall' = Null
  /\ openAtEnd' = Null
  /\ hsc' = IdleStart
  /\ callStartTime' = Unset
  /\ UNCHANGED <<ctrlVars, stillVars, duration, sentDuration, reservations, callTimer,
                 timerReservations, rendered, endWrites, clock, today, polled, ticked,
                 dialedLate, pollTimer>>

\* endCall() followed by cleanupCall(true), as checkEndTime (lines 185-186), the
\* 1 s interval (lines 227-228) and handleEndCall (lines 365-366) call them,
\* refs.duration being d
EndAndCleanup(d) ==
  /\ \E th \in BOOLEAN : HookEndCall(th)
  /\ callTimer' = FALSE
  /\ timerReservations' = {}
  /\ endWrites' = WritesAfterCleanup(endWrites, activeCall)
  /\ \A r \in ReservationIds : endWrites'[r] <= MaxWrites
  /\ sentDuration' = [sentDuration EXCEPT ![activeCall] = FinalDuration(d)]

\* handleEndCall, lines 361-367: the End Call button (lines 523, 537-554) is pressed
HandleEndCall ==
  /\ mounted /\ Flushed
  /\ activeCall # Null /\ activeCall \in ListIds(reservations) /\ callStatus = "open"
  /\ EndAndCleanup(duration)
  /\ UNCHANGED <<stillVars, duration, callStartTime, reservations, activeCall, rendered,
                 hsc, worldVars, pollTimer>>

\* the 5000 ms interval of the effect "Check for call end time" fires
\* (lines 168-191) once the end time is reached
PollFire ==
  /\ Flushed
  /\ pollTimer
  /\ callStatus = "open" /\ activeCall # Null
  /\ clock # "within"
  /\ polled' = (polled \/ clock = "due")
  /\ IF DeadlineReached(activeCall, ListIds(reservations))
     THEN EndAndCleanup(duration)
     ELSE UNCHANGED <<ctrlVars, callTimer, timerReservations, endWrites, sentDuration>>
  /\ UNCHANGED <<stillVars, duration, callStartTime, reservations, activeCall, rendered,
                 hsc, store, clock, today, ticked, histVars, pollTimer>>

\* the 1000 ms interval of startCallTimer fires (lines 203-234) once the end
\* time is reached; it looks the reservation up in the list it was created with
CallTimerTick ==
  /\ Flushed
  /\ callTimer
  /\ clock # "within"
  /\ ticked' = (ticked \/ clock = "due")
  /\ duration' = IF callStartTime # Unset THEN callStartTime ELSE duration
  /\ IF callStartTime # Unset /\ DeadlineReached(activeCall, timerReservations)
     THEN EndAndCleanup(callStartTime)
     ELSE UNCHANGED <<ctrlVars, callTimer, timerReservations, endWrites, sentDuration>>
  /\ UNCHANGED <<stillVars, callStartTime, reservations, activeCall, rendered, hsc,
                 store, clock, today, polled, histVars, pollTimer>>

\* the 1000 ms interval of startCallTimer fires before the end time (lines
\* 203-209): the seconds since callStartTime are stored
CallTimerCount ==
  /\ Flushed
  /\ callTimer
  /\ clock = "within"
  /\ callStartTime # Unset
  /\ duration' = callStartTime
  /\ UNCHANGED <<ctrlVars, stillVars, callStartTime, sentDuration, listVars, worldVars>>

\* a second passes while refs.callStartTime holds an instant
SecondPasses ==
  /\ Flushed
  /\ callStartTime # Unset /\ callStartTime < MaxDuration
  /\ callStartTime' = callStartTime + 1
  /\ UNCHANGED <<ctrlVars, stillVars, duration, sentDuration, listVars, worldVars>>

\* cleanupCall(true), lines 104-124: endReservationCall returned (written tells
\* whether the store took the write); the call state is reset
EndWriteResets(r, outcome) ==
  /\ endWrites[r] > 0
  /\ endWrites' = [endWrites EXCEPT ![r] = @ - 1]
  /\ store' = IF outcome = "ok" THEN [store EXCEPT ![r] = "completed"] ELSE store
  /\ apiAlert' = (apiAlert \/ outcome = "ngrok")
  /\ activeCall' = Null
  /\ openAtEnd' = Null
  /\ duration' = 0
  /\ callStartTime' = Unset
  /\ sentDuration' = IF endWrites'[r] = 0 THEN [sentDuration EXCEPT ![r] = Unset]
                     ELSE sentDuration
  /\ UNCHANGED <<observed, recVars, reservations, callTimer, timerReservations,
                 rendered, hsc, clock, today, polled, ticked, dialedLate, pollTimer,
                 mountVars>>

\* cleanupCall(true) called by a handler that does nothing after it
EndWriteReturned(r, outcome) ==
  EndWriteResets(r, outcome) /\ UNCHANGED <<ctrlVars, probe>>

\* the same with the local URL
EndWriteDone(r, written) == EndWriteReturned(r, Outcome(written))

\* the wall clock reaches endTime
ClockDue ==
  /\ Flushed
  /\ clock = "within"
  /\ clock' = "due"
  /\ openAtEnd' = IF callStatus = "open" THEN activeCall ELSE Null
  /\ UNCHANGED <<ctrlVars, sideVars, listVars, store, today, polled, ticked, dialedLate>>

\* one poll interval (5000 ms, line 191) has passed since endTime: every
\* interval that was armed all the while has fired
ClockOverdue ==
  /\ Flushed
  /\ clock = "due"
  /\ (callStatus = "open" /\ activeCall # Null) => polled
  /\ callTimer => ticked
  /\ clock' = "overdue"
  /\ polled' = FALSE
  /\ ticked' = FALSE
  /\ UNCHANGED <<ctrlVars, sideVars, listVars, store, today, histVars>>

\* the minute of endTime is over
ClockAfter ==
  /\ Flushed
  /\ clock = "overdue"
  /\ clock' = "after"
  /\ UNCHANGED <<ctrlVars, sideVars, listVars, store, today, polled, ticked, histVars>>

\* what the hook, the provider and the gateway do while ReservationList is
\* mounted; the device raises no error of its own and nobody calls in
RlTokenOk == Flushed /\ \E i \in InitSlots : InitTokenOk(i)
RlTokenFail == Flushed /\ \E i \in InitSlots : InitTokenFail(i)
RlMicGranted == Flushed /\ \E i \in InitSlots : InitMicGranted(i)
RlMicDenied == Flushed /\ \E i \in InitSlots : InitMicDenied(i)
RlRegistered == Flushed /\ \E d \in DeviceIds : DeviceRegistered(d)
RlRegisterOk == Flushed /\ \E i \in InitSlots : InitRegisterOk(i)
RlRegisterFail == Flushed /\ \E i \in InitSlots : InitRegisterFail(i)
RlRinging == Flushed /\ \E s \in SessionIds : SessionRinging(s)
RlAccept == Flushed /\ \E s \in SessionIds : SessionAccept(s)
RlReconnecting == Flushed /\ \E s \in SessionIds : SessionReconnecting(s)
RlReconnected == Flushed /\ \E s \in SessionIds : SessionReconnected(s)
RlTerminal == Flushed /\ \E s \in SessionIds : SessionTerminal(s)
RlDisconnected == Flushed /\ \E s \in SessionIds : SessionDisconnected(s)
RlSessionError == Flushed /\ \E s \in SessionIds : SessionError(s)
RlSettle == Flushed /\ SettleTimerFire

GuardNext ==
  \/ InitializeTwilio
  \/ RunEffects
  \/ \E swept \in BOOLEAN, listed \in BOOLEAN : FetchReservations(swept, listed)
  \/ \E r \in ReservationIds : HandleStartCall(r)
  \/ \E written \in BOOLEAN : StartCallMarked(written)
  \/ StartCallConnected
  \/ StartCallFailed
  \/ \E written \in BOOLEAN : StartCallReverted(written)
  \/ HandleEndCall
  \/ PollFire
  \/ CallTimerTick
  \/ \E r \in ReservationIds, written \in BOOLEAN : EndWriteDone(r, written)
  \/ ClockDue
  \/ ClockOverdue
  \/ ClockAfter
  \/ RlTokenOk
  \/ RlTokenFail
  \/ RlMicGranted
  \/ RlMicDenied
  \/ RlRegistered
  \/ RlRegisterOk
  \/ RlRegisterFail
  \/ RlRinging
  \/ RlAccept
  \/ RlReconnecting
  \/ RlReconnected
  \/ RlTerminal
  \/ RlDisconnected
  \/ RlSessionError
  \/ RlSettle

\* the page is opened on the date of the reservations or on the day after
GuardInit == \E date \in {ReservationDate, NextDate} : InitOn(date, InitialStore)

\* ReservationList mounted for Username, driving the hook
GuardSpec == GuardInit /\ [][GuardNext]_vars

\* --------------------------------------------------------------- VoipCall
\* VoipCall mounted on the hook: its only use of initialize is the effect of
\* lines 47-66, which runs after every render in which isInitialized or
\* callStatus changed (rendered holds the values of the last run).
AutoDepsChanged ==
  rendered.status = "" \/ rendered.status # callStatus \/ rendered.init # isInitialized

\* the effect "Auto-initialize", lines 47-66, up to initialize's first await
AutoInitialize ==
  /\ ~Flushed
  /\ rendered' = Current
  /\ IF AutoDepsChanged /\ ~isInitialized /\ callStatus # "initializing"
     THEN \E i \in InitSlots, id \in Identities : HookInitialize(i, id)
     ELSE UNCHANGED ctrlVars
  /\ UNCHANGED <<observed, recVars, durVars, apiAlert, probe, mountVars, reservations,
                 activeCall, callTimer, timerReservations, hsc, endWrites, worldVars,
                 pollTimer>>

RlDeviceError == Flushed /\ \E d \in DeviceIds : DeviceError(d)

\* register() resolves once the device is registered: its continuation
\* (line 365) runs before or after the effect of the render that the
\* `registered` listener (lines 332-335) caused
AutoNext ==
  \/ AutoInitialize
  \/ RlTokenOk
  \/ RlTokenFail
  \/ RlMicGranted
  \/ RlMicDenied
  \/ RlRegistered
  \/ \E i \in InitSlots : InitRegisterOk(i)
  \/ RlRegisterFail
  \/ RlDeviceError

AutoSpec == Init /\ [][AutoNext]_vars

\* --------------------------------------------------------------- teardown
\* (mutant) the interval is left armed
KeptInterval(armed) == armed

\* clearInterval on an interval that may be armed
ClearedInterval(armed) == FALSE

\* ReservationList is unmounted: the cleanups of its effects run, that of the
\* hook it uses (part_000 105-123), of "Check for call end time" (line 192),
\* of "Cleanup timers on component unmount" (lines 239-250) and of
\* "Periodically refresh reservations" (lines 293-298)
ListUnmount ==
  /\ HookUnmount
  /\ pollTimer' = ClearedInterval(pollTimer)
  /\ callTimer' = ClearedInterval(callTimer)
  /\ timerReservations' = IF callTimer' THEN timerReservations ELSE {}
  /\ refreshTimer' = ClearedInterval(refreshTimer)
  /\ UNCHANGED <<observed, recVars, durVars, apiAlert, probe, reservations, activeCall,
                 rendered, hsc, endWrites, worldVars>>

\* one of the three intervals of ReservationList fires
IntervalFires ==
  \/ PollFire
  \/ CallTimerTick
  \/ \E swept \in BOOLEAN, listed \in BOOLEAN : FetchReservations(swept, listed)

TeardownNext ==
  \/ InitializeTwilio
  \/ RunEffects
  \/ FetchReservations(TRUE, TRUE)
  \/ \E r \in ReservationIds : HandleStartCall(r)
  \/ StartCallMarked(TRUE)
  \/ StartCallConnected
  \/ HandleEndCall
  \/ PollFire
  \/ CallTimerTick
  \/ \E r \in ReservationIds : EndWriteDone(r, TRUE)
  \/ ClockDue
  \/ RlTokenOk
  \/ RlMicGranted
  \/ RlRegistered
  \/ RlRegisterOk
  \/ RlAccept
  \/ RlDisconnected
  \/ RlSettle
  \/ ListUnmount

\* ReservationList driving a call, unmounted at any moment
TeardownSpec == Init /\ [][TeardownNext]_vars

\* ---------------------------------------------------------------- recovery
\* The page is opened, within the window of the reservations, while the store
\* may still hold reservations as ongoing from a page that was closed or
\* reloaded during a call; followed up to the first call that is dialed.
RecoveryNext ==
  \/ RecoveringEffects
  \/ \E listed \in BOOLEAN : RecoveryRead(listed)
  \/ \E written \in BOOLEAN : RecoveryWritten(written)
  \/ \E swept \in BOOLEAN, listed \in BOOLEAN : RecoveryFetched(swept, listed)
  \/ InitializeTwilio
  \/ RlTokenOk
  \/ RlTokenFail
  \/ RlMicGranted
  \/ RlMicDenied
  \/ RlRegistered
  \/ RlRegisterOk
  \/ RlRegisterFail
  \/ \E swept \in BOOLEAN, listed \in BOOLEAN : FetchReservations(swept, listed)
  \/ \E r \in ReservationIds : HandleStartCall(r)
  \/ \E written \in BOOLEAN : StartCallMarked(written)

RecoveryInit ==
  \E stored \in [ReservationIds -> {"scheduled", "ongoing"}] :
     InitOn(ReservationDate, stored)

RecoverySpec == RecoveryInit /\ [][RecoveryNext]_vars

\* ------------------------------------------------------------ timed calls
\* Calls started and ended inside the window of the reservation, with the
\* seconds counted; the writes of "ongoing" and "completed" go through the
\* tunnel (config.api.useNgrok).
TimedNext ==
  \/ InitializeTwilio
  \/ RunEffects
  \/ \E swept \in BOOLEAN, listed \in BOOLEAN : FetchReservations(swept, listed)
  \/ \E r \in ReservationIds : HandleStartCall(r)
  \/ \E outcome \in WriteOutcomes : StartCallMarkReturned(outcome)
  \/ StartCallConnected
  \/ StartCallFailed
  \/ \E written \in BOOLEAN : StartCallReverted(written)
  \/ HandleEndCall
  \/ CallTimerCount
  \/ SecondPasses
  \/ \E r \in ReservationIds, outcome \in WriteOutcomes : EndWriteReturned(r, outcome)
  \/ RlTokenOk
  \/ RlMicGranted
  \/ RlRegistered
  \/ RlRegisterOk
  \/ RlRinging
  \/ RlAccept
  \/ RlReconnecting
  \/ RlReconnected
  \/ RlTerminal
  \/ RlDisconnected
  \/ RlSessionError
  \/ RlSettle

TimedSpec == Init /\ [][TimedNext]_vars

\* ------------------------------------------------- the provider observed
\* The hook with what passes between it and the provider written down: probe
\* holds the last event the device emitted or the last method answerCall or
\* rejectCall called on the session, and n tells one occurrence from the next.
ProviderInit ==
  /\ Constructed(ReservationDate, InitialStore)
  /\ probe = [pc |-> "provider", last |-> "none", n |-> 0]

Noted(what) == [probe EXCEPT !.last = what, !.n = 1 - @]
Quiet == <<observed, recVars, durVars, apiAlert, listVars, worldVars, mountVars>>

\* the device emits "registered" (lines 332-335)
EmitRegistered(d) ==
  OnRegistered(d) /\ probe' = Noted("registered") /\ UNCHANGED Quiet

\* the device emits "error" (lines 337-340)
EmitError(d) ==
  OnDeviceError(d) /\ probe' = Noted("error") /\ UNCHANGED Quiet

\* answerCall (lines 471-480) with accept() not throwing: accept() is called
\* on the session held, or checkActiveCall throws with none held
Answer ==
  /\ HookAnswerCall(FALSE)
  /\ probe' = IF activeCallRef # Null THEN Noted("accept") ELSE probe
  /\ UNCHANGED Quiet

\* rejectCall (lines 482-490) with reject() not throwing
Reject ==
  /\ HookRejectCall(FALSE)
  /\ probe' = IF activeCallRef # Null THEN Noted("reject") ELSE probe
  /\ UNCHANGED Quiet

ProviderNext ==
  \/ \E id \in Identities : InitializeAlone(id)
  \/ \E i \in InitSlots : InitTokenOk(i)
  \/ \E i \in InitSlots : InitMicGranted(i)
  \/ \E i \in InitSlots : InitRegisterOk(i)
  \/ \E i \in InitSlots : InitRegisterFail(i)
  \/ \E d \in DeviceIds : EmitRegistered(d)
  \/ \E d \in DeviceIds : EmitError(d)
  \/ \E d \in DeviceIds, from \in Callers : Incoming(d, from)
  \/ \E to \in Destinations, t \in CallTypes : MakeCallStart(to, t)
  \/ ConnectOk
  \/ \E s \in SessionIds : SessionRinging(s)
  \/ \E s \in SessionIds : SessionAccept(s)
  \/ \E s \in SessionIds : SessionDisconnected(s)
  \/ SettleTimerFire
  \/ Answer
  \/ Reject

ProviderSpec == ProviderInit /\ [][ProviderNext]_vars

\* ------------------------------------------------ the hook as it is called
\* The operations of the hook with their arguments and what they threw
\* written down in probe: op is the last operation invoked or event received,
\* arg its argument (for toggleMute, what mute() was called with) and thrown
\* the message of the error that was raised in it, "" with none.
CallerInit ==
  /\ Constructed(ReservationDate, InitialStore)
  /\ probe = [pc |-> "caller", op |-> "none", arg |-> <<>>, thrown |-> ""]

Called(op, arg, thrown) == [pc |-> "caller", op |-> op, arg |-> arg, thrown |-> thrown]

\* what checkActiveCall (lines 148-151) or the provider method after it throws
Thrown(throws) ==
  IF activeCallRef = Null THEN NoActiveCall ELSE IF throws THEN ProviderFault ELSE ""

\* the caller addresses the provider hands over: parameters with a From of
\* "client:d", "d", "+1", "client:", "xclient:d", "" or without a From
CallerParameters ==
  {[k \in {"From"} |-> a] :
      a \in {ClientPrefix \o <<"d">>, <<"d">>, <<"+", "1">>, ClientPrefix,
              <<"x">> \o ClientPrefix \o <<"d">>, <<>>}}
  \cup {[k \in {"To"} |-> <<"d">>]}

\* the device emits "incoming" with a call whose parameters are parameters
IncomingFrom(d, parameters) ==
  /\ OnIncoming(d, ExtractClientIdentity(parameters))
  /\ probe' = Called("incoming", parameters, "")
  /\ UNCHANGED Quiet

\* makeCall(to, callType), lines 413-445: it throws with no device (line 415)
CallMake(to, callType) ==
  /\ IF deviceRef = Null
     THEN /\ probe' = Called("makeCall", to, DeviceNotInitialized)
          /\ UNCHANGED ctrlVars
     ELSE /\ probe' = Called("makeCall", to, "")
          /\ HookMakeCall(to, callType)
  /\ UNCHANGED Quiet

CallAnswer(throws) ==
  /\ HookAnswerCall(throws)
  /\ probe' = Called("answerCall", <<>>, Thrown(throws))
  /\ UNCHANGED Quiet

CallReject(throws) ==
  /\ HookRejectCall(throws)
  /\ probe' = Called("rejectCall", <<>>, Thrown(throws))
  /\ UNCHANGED Quiet

CallEnd(throws) ==
  /\ HookEndCall(throws)
  /\ probe' = Called("endCall", <<>>, Thrown(throws))
  /\ UNCHANGED Quiet

\* toggleMute: mute() is called with the new state once checkActiveCall returned
CallToggleMute(throws) ==
  /\ HookToggleMute(throws)
  /\ probe' = Called("toggleMute",
                     IF activeCallRef = Null THEN <<>> ELSE <<NewMuteState(isMuted)>>,
                     Thrown(throws))
  /\ UNCHANGED Quiet

CallerNext ==
  \/ \E id \in Identities : InitializeAlone(id)
  \/ \E i \in InitSlots : InitTokenOk(i)
  \/ \E i \in InitSlots : InitMicGranted(i)
  \/ \E i \in InitSlots : InitRegisterOk(i)
  \/ \E i \in InitSlots : InitRegisterFail(i)
  \/ \E d \in DeviceIds : DeviceRegistered(d)
  \/ \E d \in DeviceIds, parameters \in CallerParameters : IncomingFrom(d, parameters)
  \/ \E to \in Destinations, t \in CallTypes : CallMake(to, t)
  \/ ConnectOk
  \/ ConnectFail
  \/ \E s \in SessionIds : SessionAccept(s)
  \/ \E s \in SessionIds : SessionTerminal(s)
  \/ \E s \in SessionIds : SessionDisconnected(s)
  \/ SettleTimerFire
  \/ \E th \in BOOLEAN : CallAnswer(th)
  \/ \E th \in BOOLEAN : CallReject(th)
  \/ \E th \in BOOLEAN : CallEnd(th)
  \/ \E th \in BOOLEAN : CallToggleMute(th)

CallerSpec == CallerInit /\ [][CallerNext]_vars

\* -------------------------------------------------- cleanupCallResources
\* cleanupCallResources (lines 68-101) on its own, called up to MaxCleanups
\* times in a row from a state of the controller; probe counts the calls and
\* holds what the provider was asked to do.
MaxCleanups == 2
CallStatuses == {"closed", "initializing", "ready", "connecting", "ringing", "pending",
                 "open", "reconnecting", "error"}

CleanupInit ==
  /\ Mounted(ReservationDate, InitialStore)
  /\ identity \in {"", Username}
  /\ callStatus \in CallStatuses
  /\ error \in {"", ErrCall}
  /\ isInitialized \in BOOLEAN
  /\ remoteIdentity \in {""} \cup Destinations
  /\ deviceRef \in {Null, 1}
  /\ activeCallRef \in {Null, 1}
  /\ isMuted \in (IF activeCallRef = Null THEN {FALSE} ELSE BOOLEAN)
  /\ inits = [i \in InitSlots |-> IdleInit]
  /\ pendingConnects = 0
  /\ settleTimers \in {0, 1}
  /\ TokenIdle
  /\ devices = [d \in DeviceIds |-> IF d = deviceRef THEN "registered" ELSE "free"]
  /\ \E closed \in BOOLEAN :
        sessions = [s \in SessionIds |->
                      IF s # activeCallRef THEN FreeSession
                      ELSE IF closed THEN DiscSession
                      ELSE [st |-> "live", dir |-> "out", phase |-> "new"]]
  /\ probe = [pc |-> "cleanup", calls |-> 0, session |-> activeCallRef # Null,
              threw |-> FALSE, disconnected |-> FALSE,
              outgoing |-> deviceRef # Null, incoming |-> deviceRef # Null]

\* cleanupCallResources, lines 68-101; the three flags tell which calls on the
\* provider throw
CleanupCallResources(disconnectThrows, outgoingThrows, incomingThrows) ==
  /\ probe.pc = "cleanup" /\ probe.calls < MaxCleanups
  /\ LET a == activeCallRef
         open == a # Null /\ sessions[a].st = "live"
         \* line 76 is reached and returns
         hungUp == open /\ ~disconnectThrows
         \* lines 81-90 are reached
         releases == a # Null /\ ~(open /\ disconnectThrows) /\ deviceRef # Null
     IN /\ sessions' = IF hungUp THEN ProviderDisconnect(sessions, a) ELSE sessions
        /\ activeCallRef' = IF a # Null THEN ClearedCallRef(a) ELSE a
        /\ probe' = [probe EXCEPT
                       !.calls = @ + 1,
                       !.threw = FALSE,
                       !.disconnected = (@ \/ open),
                       !.outgoing = (@ /\ ~(releases /\ ~outgoingThrows)),
                       !.incoming =
                         (@ /\ ~(releases /\ ~outgoingThrows /\ ~incomingThrows))]
  /\ isMuted' = FALSE
  /\ remoteIdentity' = ClearedRemote(remoteIdentity)
  /\ UNCHANGED <<identity, callStatus, error, isInitialized, deviceRef, asyncVars,
                 devices, observed, recVars, durVars, apiAlert, listVars, worldVars,
                 mountVars>>

CleanupNext ==
  \E disconnectThrows \in BOOLEAN, outgoingThrows \in BOOLEAN, incomingThrows \in BOOLEAN :
     CleanupCallResources(disconnectThrows, outgoingThrows, incomingThrows)

CleanupSpec == CleanupInit /\ [][CleanupNext]_vars

\* ------------------------------------------------------- isCallTimeValid
\* isCallTimeValid (lines 383-403) on its own: strings are sequences of
\* characters, compared as JavaScript compares them.
Digits == <<"0", "1", "2", "3", "4", "5", "6", "7", "8", "9">>

\* the UTF-16 code unit of a digit or of ":"
CharCode(c) == IF c = ":" THEN 58 ELSE 47 + (CHOOSE n \in 1..10 : Digits[n] = c)

\* Number.prototype.toString for 0..99
NumToString(n) ==
  IF n < 10 THEN <<Digits[n + 1]>> ELSE <<Digits[(n \div 10) + 1], Digits[(n % 10) + 1]>>

\* String.prototype.padStart(len, fill), fill one character
RECURSIVE PadStart(_, _, _)
PadStart(str, len, fill) ==
  IF Len(str) >= len THEN str ELSE PadStart(<<fill>> \o str, len, fill)

\* a <= b on strings: by code units, a proper prefix being smaller
RECURSIVE StrLeq(_, _)
StrLeq(a, b) ==
  IF a = <<>> THEN TRUE
  ELSE IF b = <<>> THEN FALSE
  ELSE IF CharCode(Head(a)) # CharCode(Head(b)) THEN CharCode(Head(a)) < CharCode(Head(b))
  ELSE StrLeq(Tail(a), Tail(b))

\* lines 390-393: the local time as "HH:MM"
CurrentTimeStr(hours, minutes) ==
  PadStart(NumToString(hours), 2, "0") \o <<":">> \o PadStart(NumToString(minutes), 2, "0")

\* (mutant) the end minute is no longer valid
InWindowExclusive(now, start, end) == StrLeq(start, now) /\ ~StrLeq(end, now)

\* lines 400-401
InWindow(now, start, end) == StrLeq(start, now) /\ StrLeq(now, end)

\* isCallTimeValid, lines 383-403, for the state (active, recovered), the
\* reservation res and the instant now (its UTC date, its local hours, minutes)
IsCallTimeValidAt(active, recovered, res, now) ==
  IF active # Null THEN FALSE
  ELSE IF res.reservationDate # now.utcDate THEN FALSE
  ELSE LET currentTimeStr == CurrentTimeStr(now.hours, now.minutes)
           validStatus == \/ res.status = "scheduled"
                          \/ res.status = "ongoing" /\ recovered
       IN validStatus /\ InWindow(currentTimeStr, res.startTime, res.endTime)

\* the instants and reservations isCallTimeValid is applied to
ProbeHours == {9, 10}
ProbeMinutes == {0, 4, 5, 6}
ProbeTimes == {<<"0", "9", ":", "0", "5">>, <<"1", "0", ":", "0", "0">>,
               <<"1", "0", ":", "0", "5">>}
ProbeReservations ==
  [reservationDate : {ReservationDate, NextDate},
   status : {"scheduled", "ongoing", "completed"},
   startTime : ProbeTimes, endTime : ProbeTimes]
ProbeInstants == [utcDate : {ReservationDate, NextDate}, hours : ProbeHours,
                  minutes : ProbeMinutes]

TimeInit ==
  /\ Constructed(ReservationDate, InitialStore)
  /\ probe \in [pc : {"asked"}, active : {Null} \cup ReservationIds, recovered : BOOLEAN,
                res : {r \in ProbeReservations : StrLeq(r.startTime, r.endTime)},
                now : ProbeInstants, out : {FALSE}]

\* a render evaluates isCallTimeValid(reservation) (line 503)
CheckCallTime ==
  /\ probe.pc = "asked"
  /\ probe' = [probe EXCEPT !.pc = "answered",
                 !.out = IsCallTimeValidAt(probe.active, probe.recovered, probe.res,
                                           probe.now)]
  /\ UNCHANGED <<ctrlVars, observed, recVars, durVars, apiAlert, listVars, worldVars, mountVars>>

TimeSpec == TimeInit /\ [][CheckCallTime]_vars

\* ------------------------------------------------------------------ config
\* config (env.ts, lines 1-39) on its own: import.meta.env is a function from
\* the names of the variables that are set to their values; the values of the
\* two switches are sequences of characters.
UpperCase == <<"T", "R", "U", "E", "F", "A", "L", "S">>
LowerCase == <<"t", "r", "u", "e", "f", "a", "l", "s">>

\* String.prototype.toLowerCase, character by character
ToLowerCase(str) ==
  [k \in 1..Len(str) |->
     IF \E n \in 1..Len(UpperCase) : UpperCase[n] = str[k]
     THEN LowerCase[CHOOSE n \in 1..Len(UpperCase) : UpperCase[n] = str[k]]
     ELSE str[k]]

\* parseBooleanEnv, lines 1-7, applied to the variable name of env
ParseBooleanEnv(env, name, defaultValue) ==
  IF name \notin DOMAIN env THEN defaultValue
  ELSE ToLowerCase(env[name]) = <<"t", "r", "u", "e">>

\* import.meta.env.NAME || fallback, lines 12-13
OrElse(env, name, fallback) ==
  IF name \in DOMAIN env /\ env[name] # <<>> THEN env[name] ELSE fallback

\* URLs are sequences of their parts, the empty string the empty sequence
DefaultLocalUrl == <<"http://", "localhost", ":9000">>

\* config, lines 9-39, with baseUrl as its getter yields it
Config(env) ==
  LET useNgrok == ParseBooleanEnv(env, "VITE_USE_NGROK", FALSE)
      ngrokUrl == OrElse(env, "VITE_NGROK_URL", <<>>)
      localUrl == OrElse(env, "VITE_LOCAL_URL", DefaultLocalUrl)
  IN [useNgrok |-> useNgrok, ngrokUrl |-> ngrokUrl, localUrl |-> localUrl,
      baseUrl |-> IF useNgrok THEN ngrokUrl ELSE localUrl,
      debug |-> ParseBooleanEnv(env, "VITE_ENABLE_DEBUG", TRUE)]

\* the environments config is built from
SwitchValues ==
  {<<"t", "r", "u", "e">>, <<"T", "R", "U", "E">>, <<"T", "r", "u", "e">>,
   <<"f", "a", "l", "s", "e">>, <<"1">>, <<>>, <<"t", "r", "u", "e", " ">>}
UrlValues == {<<>>, <<"https://", "tunnel.example">>, <<"http://", "localhost", ":8000">>}
EnvValues(name) ==
  IF name \in {"VITE_USE_NGROK", "VITE_ENABLE_DEBUG"} THEN SwitchValues ELSE UrlValues
EnvNames == {"VITE_USE_NGROK", "VITE_ENABLE_DEBUG", "VITE_NGROK_URL", "VITE_LOCAL_URL"}
Environments ==
  UNION {{env \in [names -> SwitchValues \cup UrlValues] :
            \A name \in names : env[name] \in EnvValues(name)} :
         names \in SUBSET EnvNames}

ConfigInit ==
  /\ Constructed(ReservationDate, InitialStore)
  /\ \E env \in Environments : probe = [pc |-> "env", env |-> env]

\* the module env.ts is evaluated
LoadConfig ==
  /\ probe.pc = "env"
  /\ probe' = [pc |-> "config", env |-> probe.env, config |-> Config(probe.env)]
  /\ UNCHANGED <<ctrlVars, Quiet>>

ConfigSpec == ConfigInit /\ [][LoadConfig]_vars

\* ------------------------------------------------- overlapping Start Call
\* handleStartCall invoked while an earlier invocation of it is suspended:
\* hsc is the earlier invocation, probe the later one.
IdleAgain == [pc |-> "start", at |-> "idle", res |-> Null]

\* two reservations of the same window, both to call
TwoScheduled == [r \in ReservationIds |-> "scheduled"]

OverlapInit == Constructed(ReservationDate, TwoScheduled) /\ probe = IdleAgain

\* handleStartCall, lines 320-336: a Start Call button (lines 503-509, shown
\* while isCallTimeValid, enabled while activeCall is null and isInitialized)
\* is pressed while an invocation is in flight
HandleStartCallAgain(r) ==
  /\ mounted /\ Flushed
  /\ hsc.pc # "idle" /\ probe.at = "idle"
  /\ IsCallTimeValid(r) /\ isInitialized
  /\ probe' = [probe EXCEPT !.at = "mark", !.res = r]
  /\ UNCHANGED <<ctrlVars, observed, recVars, durVars, apiAlert, mountVars, listVars,
                 worldVars>>

\* handleStartCall, lines 336-344, of the later invocation
AgainMarked(written) ==
  /\ probe.at = "mark"
  /\ store' = IF written THEN [store EXCEPT ![probe.res] = "ongoing"] ELSE store
  /\ activeCall' = probe.res
  /\ IF deviceRef = Null
     THEN probe' = [probe EXCEPT !.at = "revert"] /\ UNCHANGED ctrlVars
     ELSE /\ probe' = [probe EXCEPT !.at = "dial"]
          /\ \E to \in Destinations : HookMakeCall(to, "phone")
  /\ dialedLate' = (dialedLate \/ clock # "within")
  /\ duration' = 0
  /\ callStartTime' = 0
  /\ UNCHANGED <<observed, recVars, apiAlert, sentDuration, reservations, callTimer,
                 timerReservations, rendered, hsc, endWrites, clock, today, polled,
                 ticked, openAtEnd, pollTimer, mountVars>>

\* handleStartCall, lines 344-353, of the later invocation: makeCall resolved
AgainConnected ==
  /\ probe.at = "dial"
  /\ HookConnectOk
  /\ probe' = IdleAgain
  /\ UNCHANGED <<observed, recVars, durVars, apiAlert, mountVars, listVars, worldVars>>

\* handleStartCall, lines 345-346, of the later invocation: makeCall rejected
AgainFailed ==
  /\ probe.at = "dial"
  /\ HookConnectFail
  /\ probe' = [probe EXCEPT !.at = "revert"]
  /\ UNCHANGED <<observed, recVars, durVars, apiAlert, mountVars, listVars, worldVars>>

\* handleStartCall, lines 346-358, of the later invocation
AgainReverted(written) ==
  /\ probe.at = "revert"
  /\ store' = IF written THEN [store EXCEPT ![probe.res] = "scheduled"] ELSE store
  /\ activeCall' = Null
  /\ openAtEnd' = Null
  /\ probe' = IdleAgain
  /\ callStartTime' = Unset
  /\ UNCHANGED <<ctrlVars, observed, recVars, apiAlert, mountVars, duration,
                 sentDuration, reservations, callTimer, timerReservations, rendered,
                 hsc, endWrites, clock, today, polled, ticked, dialedLate, pollTimer>>

\* the requests to the store succeed and no call is ended by the user here:
\* what is left in the store is left by the order of the invocations alone
OverlapNext ==
  \/ InitializeTwilio
  \/ RunEffects
  \/ FetchReservations(TRUE, TRUE)
  \/ \E r \in ReservationIds : HandleStartCall(r)
  \/ StartCallMarked(TRUE)
  \/ StartCallConnected
  \/ StartCallFailed
  \/ StartCallReverted(TRUE)
  \/ \E r \in ReservationIds : HandleStartCallAgain(r)
  \/ AgainMarked(TRUE)
  \/ AgainConnected
  \/ AgainFailed
  \/ AgainReverted(TRUE)
  \/ RlTokenOk
  \/ RlMicGranted
  \/ RlRegistered
  \/ RlRegisterOk
  \/ RlAccept
  \/ RlDisconnected
  \/ RlSettle

OverlapSpec == OverlapInit /\ [][OverlapNext]_vars

\* ------------------------------------------------------ a changed username
\* ReservationPage hands ReservationList another username (lines 7-25 of
\* ReservationPage.tsx set it once it is read).  probe holds the prop, the
\* ref refs.prevUsername (line 38), how many runs of the effect "Initialize
\* Twilio" are suspended on the cleanupCall(true) of each reservation, whether
\* the effect has run in the render being handled, and whether one of its
\* runs has resumed from cleanupCall.
OtherUsername == "bob"

\* (mutant) initialize is called at once
NeverCleanup(active, prev, u) == FALSE

\* the test of line 133
MustCleanup(active, prev, u) == active # Null /\ prev # u

RenameInit ==
  /\ Constructed(ReservationDate, InitialStore)
  /\ probe = [pc |-> "rename", username |-> Username, prevUsername |-> Username,
              awaiting |-> [r \in ReservationIds |-> 0], ran |-> FALSE,
              cleaned |-> FALSE]

\* the effect "Initialize Twilio", lines 130-150, with the username u, where
\* refs.prevUsername differs from it: up to its first await, which is that
\* of cleanupCall(true) (line 135, after endCall, lines 91-112) or that
\* of initialize (line 137)
InitializeRenamed(u, ran) ==
  IF MustCleanup(activeCall, probe.prevUsername, u)
  THEN /\ EndAndCleanup(duration)
       /\ probe' = [probe EXCEPT !.username = u, !.ran = ran,
                                 !.awaiting[activeCall] = @ + 1]
       /\ UNCHANGED <<observed, recVars, apiAlert, mountVars, duration, callStartTime,
                      reservations, activeCall, rendered, hsc, worldVars, pollTimer>>
  ELSE /\ \E i \in InitSlots : HookInitialize(i, u)
       /\ probe' = [probe EXCEPT !.username = u, !.ran = ran]
       /\ UNCHANGED <<observed, recVars, durVars, apiAlert, mountVars, listVars,
                      worldVars>>

\* the username prop changes: the render and the run of the effect it causes
UsernameChanged ==
  /\ mounted /\ Flushed
  /\ isInitialized
  /\ probe.username = Username
  /\ InitializeRenamed(OtherUsername, FALSE)

\* the effect runs again in a render in which isInitialized or activeCall
\* changed (line 150) while refs.prevUsername is still the former name
RenameDue ==
  /\ ~probe.ran
  /\ rendered.init # isInitialized \/ rendered.active # activeCall
  /\ isInitialized /\ probe.prevUsername # probe.username

InitializeAgain ==
  /\ ~Flushed
  /\ RenameDue
  /\ InitializeRenamed(probe.username, TRUE)

\* the other effects of that render, after it
RenameEffects ==
  /\ ~RenameDue
  /\ Effects
  /\ probe' = [probe EXCEPT !.ran = FALSE]
  /\ UNCHANGED <<observed, recVars, apiAlert, mountVars>>

\* cleanupCall(true) of a run of the effect resumes (lines 112-126, its
\* fetchReservations being FetchReservations), and the run goes on to line 137
RenameCleaned(r, written) ==
  /\ probe.awaiting[r] > 0
  /\ EndWriteResets(r, Outcome(written))
  /\ \E i \in InitSlots : HookInitialize(i, probe.username)
  /\ probe' = [probe EXCEPT !.awaiting[r] = @ - 1, !.cleaned = TRUE]

\* cleanupCall(true) of the effect "Handle call status changes" resumes
RenameWriteDone(r, written) ==
  /\ endWrites[r] > probe.awaiting[r]
  /\ EndWriteResets(r, Outcome(written))
  /\ UNCHANGED <<ctrlVars, probe>>

\* initialize resolves and line 138 stores the username it was called with
RenameRegisterOk ==
  /\ Flushed
  /\ \E i \in InitSlots :
       /\ HookRegisterOk(i)
       /\ probe' = [probe EXCEPT !.prevUsername = inits[i].ident]
  /\ UNCHANGED <<observed, recVars, durVars, apiAlert, mountVars, listVars, worldVars>>

RenameNext ==
  \/ InitializeTwilio
  \/ UsernameChanged
  \/ InitializeAgain
  \/ RenameEffects
  \/ FetchReservations(TRUE, TRUE)
  \/ \E r \in ReservationIds : HandleStartCall(r)
  \/ StartCallMarked(TRUE)
  \/ StartCallConnected
  \/ \E r \in ReservationIds, written \in BOOLEAN : RenameCleaned(r, written)
  \/ \E r \in ReservationIds, written \in BOOLEAN : RenameWriteDone(r, written)
  \/ RlTokenOk
  \/ RlMicGranted
  \/ RlRegistered
  \/ RenameRegisterOk
  \/ RlAccept
  \/ RlDisconnected
  \/ RlSettle

\* ReservationList while its username prop changes once
RenameSpec == RenameInit /\ [][RenameNext]_vars

\* ---------------------------------------------------------------- claims
CallFaults == {ErrCall, ErrMake, ErrAnswer, ErrReject, ErrEnd, ErrMute}
SessionStatuses == {"connecting", "ringing", "pending", "open", "reconnecting"}

\* C1: the controller never holds two live (not yet disconnected) provider
\* sessions at once.
C1_AtMostOneLiveSession == Cardinality(LiveSessions) <= 1

\* C2: at most one undestroyed provider device exists at any time, also when
\* initialize() calls overlap.
C2_AtMostOneDevice == Cardinality(UndestroyedDevices) <= 1

\* C4: with a registered device, a status "error" that a call-level fault
\* left is on its way back to "ready": a settle timer is pending.
C4_CallFaultRecovers ==
  (/\ callStatus = "error" /\ error \in CallFaults
   /\ deviceRef # Null /\ devices[deviceRef] = "registered")
  => settleTimers > 0

\* C5: a non-null session handle implies that the status is one of
\* connecting, ringing, pending, open, reconnecting.
C5_HandleHasStatus == activeCallRef # Null => callStatus \in SessionStatuses

\* a terminal event (disconnect, cancel, reject) is delivered to the listeners
\* of the session the controller holds
ActiveTerminalEvent ==
  \E s \in SessionIds :
    s = activeCallRef /\ (SessionTerminal(s) \/ SessionDisconnected(s))

\* an error event is delivered to the listeners of the session the controller holds
ActiveErrorEvent == \E s \in SessionIds : s = activeCallRef /\ SessionError(s)

\* C3: after a terminal session event for the active session the handle is
\* null as soon as the listener has run, the status is the transient closed
\* (disconnect, cancel, reject) or error (error), and, the settle timer
\* firing, the status eventually becomes ready.
C3_TerminalEventSettles ==
  /\ [][ActiveTerminalEvent =>
          (activeCallRef' = Null /\ callStatus' = "closed" /\ settleTimers' > 0)]_vars
  /\ [][ActiveErrorEvent =>
          (activeCallRef' = Null /\ callStatus' = "error" /\ settleTimers' > 0)]_vars
  /\ (settleTimers > 0) ~> (callStatus = "ready")

\* a listener of a terminal event has just run and its settle timer is pending
C3_Witness ==
  settleTimers > 0 /\ activeCallRef = Null /\ callStatus \in {"closed", "error"}

IsPrefix(p, q) == Len(p) <= Len(q) /\ \A k \in 1..Len(p) : p[k] = q[k]

ScenarioStatuses ==
  <<"closed", "initializing", "ready", "connecting", "ringing", "open",
    "closed", "ready">>

\* C6: in the run initialize, registered, makeCall, ringing, accept,
\* disconnect the statuses observed from closed on are exactly initializing,
\* ready, connecting, ringing, open, closed, ready: what is observed is always
\* a prefix of that sequence, and all of it once the run can go no further.
C6_ScenarioSequence ==
  /\ IsPrefix(observed, ScenarioStatuses)
  /\ (~ENABLED ScenarioNext) => observed = ScenarioStatuses

\* the run has been made to its end, for alice and +15551234567
C6_Witness ==
  /\ observed = ScenarioStatuses
  /\ identity = "alice" /\ isInitialized /\ activeCallRef = Null
  /\ settleTimers = 0

\* nothing is in flight or scheduled any more: no handleStartCall, no store
\* write, no dial, no session, no settle timer, no effect still to run
Quiescent ==
  /\ Flushed
  /\ hsc.pc = "idle"
  /\ \A r \in ReservationIds : endWrites[r] = 0
  /\ pendingConnects = 0
  /\ settleTimers = 0
  /\ \A i \in InitSlots : inits[i].pc = "idle"
  /\ \A s \in SessionIds : sessions[s].st = "free"

\* the store takes the value "ongoing" for some reservation in this step
WritesOngoing ==
  \E r \in ReservationIds : store[r] # "ongoing" /\ store'[r] = "ongoing"

\* handleStartCall invokes makeCall in this step
InvokesMakeCall == hsc.pc = "mark" /\ hsc'.pc \in {"dial", "revert"}

\* handleStartCall finishes in this step after its makeCall failed
FinishesAfterFailedDial == hsc.pc = "revert" /\ hsc'.pc = "idle"

\* C7: the store takes "ongoing" only in the step of handleStartCall that
\* invokes makeCall, and whenever handleStartCall finishes after a failed
\* makeCall the reservation is stored as scheduled, whatever the store writes did.
C7_StartCallReverts ==
  /\ [][WritesOngoing => InvokesMakeCall]_vars
  /\ [][FinishesAfterFailedDial => store'[hsc.res] = "scheduled"]_vars

\* C8: once nothing is outstanding any more, no reservation is both bound as
\* the active call and stored as ongoing: a call attempt that ended before
\* reaching open has had its binding cleared and its reservation taken out of
\* ongoing.
C8_OngoingHasAttempt ==
  Quiescent => ~(activeCall # Null /\ store[activeCall] = "ongoing")

\* endTime and one poll interval have passed on the reservation's date, and
\* the effects of the last render have run
PastDeadline == clock \in {"overdue", "after"} /\ today = ReservationDate /\ Flushed

\* C9: a reservation-bound call that showed open when endTime was reached on
\* the reservation's date has, one poll interval later, had its session
\* disconnected and the write of completed issued: if the reservation is still
\* bound and the status still open then, the session is no longer live and
\* the write is in flight or has been stored.
C9_DeadlineEndsOpenCall ==
  (/\ PastDeadline /\ ~dialedLate
   /\ openAtEnd # Null /\ activeCall = openAtEnd /\ callStatus = "open")
  => /\ activeCallRef # Null => sessions[activeCallRef].st # "live"
     /\ endWrites[activeCall] > 0 \/ store[activeCall] = "completed"

\* C10: one poll interval after endTime on the reservation's date no session
\* that was dialed for a reservation before endTime is live, whatever its
\* status was when the deadline passed.
C10_NoSessionPastDeadline == (PastDeadline /\ ~dialedLate) => LiveSessions = {}


\* handleStartCall sends the write of "ongoing" and goes on (lines 336-344)
MarksOngoing == hsc.pc = "mark" /\ hsc'.pc # "mark"

\* C11: every reservation the store holds as ongoing when the list is opened
\* with no call active has had its write of "completed" sent by the recovery
\* before handleStartCall marks any reservation ongoing.
C11_RecoveryBeforeStart ==
  [][MarksOngoing => \A r \in ongoingAtLoad : r \in recovery.wrote]_vars

\* the minutes since midnight that an "HH:MM" string denotes
MinuteOfDay(t) ==
  LET d(i) == CharCode(t[i]) - 48
  IN (d(1) * 10 + d(2)) * 60 + d(4) * 10 + d(5)

\* the reservation and state of the scenario: 10:00-10:05, scheduled, today
ScenarioProbe ==
  /\ probe.pc = "answered" /\ probe.active = Null
  /\ probe.res = [reservationDate |-> probe.now.utcDate, status |-> "scheduled",
                  startTime |-> <<"1", "0", ":", "0", "0">>,
                  endTime |-> <<"1", "0", ":", "0", "5">>]
  /\ probe.now.hours = 10

\* C12: isCallTimeValid is true exactly when no call is bound, the
\* reservation's date is today's, its status is scheduled (or ongoing with the
\* just-recovered flag set) and startTime <= now <= endTime, both inclusive; for
\* 10:00-10:05 a scheduled reservation is eligible at 10:04 and not at 10:06.
C12_CallTimeValidExactly ==
  probe.pc = "answered" =>
    /\ probe.out <=>
         /\ probe.active = Null
         /\ probe.res.reservationDate = probe.now.utcDate
         /\ \/ probe.res.status = "scheduled"
            \/ probe.res.status = "ongoing" /\ probe.recovered
         /\ MinuteOfDay(probe.res.startTime) <= probe.now.hours * 60 + probe.now.minutes
         /\ probe.now.hours * 60 + probe.now.minutes <= MinuteOfDay(probe.res.endTime)
    /\ ScenarioProbe /\ probe.now.minutes = 4 => probe.out
    /\ ScenarioProbe /\ probe.now.minutes = 6 => ~probe.out

\* the scenario's reservation was found eligible in its last valid minute
C12_Witness == ScenarioProbe /\ probe.now.minutes = 5 /\ probe.out

\* the render in which the list sees the status leave "open" with r bound
LeavesOpen(r) ==
  rendered.status = "open" /\ rendered'.status # "open" /\ activeCall = r

\* an endReservationCall for r returns to cleanupCall
WriteReturns(r) == endWrites'[r] < endWrites[r]

\* C13: whenever the status changes from open to another status while a
\* reservation is bound, the write of "completed" with the seconds counted (0
\* if none) is sent for it and the call timer is cleared; when the write
\* returns, the binding and the duration counter are cleared.
C13_LeavingOpenCompletes ==
  /\ [][\A r \in ReservationIds :
          LeavesOpen(r) => /\ endWrites'[r] = endWrites[r] + 1
                           /\ sentDuration'[r] = duration
                           /\ ~callTimer' /\ timerReservations' = {}]_vars
  /\ [][\A r \in ReservationIds :
          WriteReturns(r) => /\ activeCall' = Null
                             /\ duration' = 0 /\ callStartTime' = Unset]_vars

\* a call that was timed for some seconds has left "open", its write is in
\* flight with those seconds and the timer is off
C13_Witness ==
  \E r \in ReservationIds :
     /\ activeCall = r /\ callStatus # "open" /\ Flushed
     /\ endWrites[r] = 1 /\ sentDuration[r] = MaxDuration /\ ~callTimer

\* an endReservationCall for r returns to cleanupCall without the store
\* having taken the write
WriteFails(r) == WriteReturns(r) /\ store' = store /\ store[r] # "completed"

\* C14: when the write sent during call cleanup fails, cleanupCall still
\* clears the binding and the duration, and no error is raised to the UI.
C14_FailedCleanupIsSilent ==
  [][\A r \in ReservationIds :
       WriteFails(r) => /\ activeCall' = Null
                        /\ duration' = 0 /\ callStartTime' = Unset
                        /\ error' = error /\ callStatus' = callStatus
                        /\ apiAlert' = apiAlert]_vars

\* the write of "ongoing" of handleStartCall returns without the store
\* having taken it
MarkFails == MarksOngoing /\ store' = store /\ store[hsc.res] # "ongoing"

\* C15: a failure of the write of "ongoing" at the start of handleStartCall
\* is shown to the user as an error and seen by handleStartCall, which does
\* not go on to dial.
C15_FailedMarkIsSurfaced ==
  [][MarkFails => /\ apiAlert' \/ error' # error
                  /\ hsc'.pc # "dial"]_vars

\* a call of cleanupCallResources returns
CleanupReturns == probe.pc = "cleanup" /\ probe'.calls = probe.calls + 1

\* C16: cleanup called twice in a row with no session present raises no
\* error and changes nothing but isMuted (to false) and remoteIdentity (to
\* empty); the second call changes nothing at all.
C16_CleanupIdempotent ==
  [][(CleanupReturns /\ ~probe.session) =>
       /\ ~probe'.threw
       /\ ~isMuted' /\ remoteIdentity' = ""
       /\ UNCHANGED <<identity, callStatus, error, isInitialized, refVars, asyncVars,
                      provVars>>
       /\ probe'.outgoing = probe.outgoing /\ probe'.incoming = probe.incoming
       /\ probe.calls = 1 => UNCHANGED hookVars]_vars

\* cleanup has returned twice with no session present, while a settle timer
\* was pending and a device registered
C16_Witness ==
  /\ probe.pc = "cleanup" /\ probe.calls = 2 /\ ~probe.session
  /\ remoteIdentity = "" /\ settleTimers = 1 /\ deviceRef # Null /\ callStatus = "closed"

\* C17: from any state cleanup returns without throwing, with the handle
\* null, isMuted false and remoteIdentity empty; a session that was not closed
\* has been disconnected and the audio of the device released, also when
\* disconnect or the audio release throws.
C17_CleanupReleases ==
  [][CleanupReturns =>
       /\ ~probe'.threw
       /\ activeCallRef' = Null /\ ~isMuted' /\ remoteIdentity' = ""
       /\ (activeCallRef # Null /\ sessions[activeCallRef].st = "live") =>
            /\ probe'.disconnected
            /\ ~probe'.outgoing /\ ~probe'.incoming]_vars

\* the initialize() in slot i returns by throwing: it ends at an await that
\* did not end in a registered device
InitializeThrows(i) ==
  /\ inits[i].pc # "idle" /\ inits'[i].pc = "idle"
  /\ ~(inits[i].pc = "register" /\ devices[inits[i].dev] = "registered")

\* C18: when initialize fails at any step, on its return the status is error
\* with a message, isInitialized is false, the device reference is null and
\* the device the invocation constructed is destroyed.
C18_FailedInitializeLeavesNoDevice ==
  [][\A i \in InitSlots :
       InitializeThrows(i) =>
         /\ callStatus' = "error" /\ error' = ErrInit
         /\ ~isInitialized'
         /\ deviceRef' = Null
         /\ inits[i].dev # Null =>
              devices'[inits[i].dev] \notin {"registering", "registered"}]_vars

\* the provider is seen to emit or to be asked what
Occurs(what) == probe'.n # probe.n /\ probe'.last = what

\* C19: when the device emits "registered" the status becomes ready; when it
\* emits "error" the status becomes error and isInitialized becomes false.
C19_DeviceEvents ==
  /\ [][Occurs("registered") => callStatus' = "ready"]_vars
  /\ [][Occurs("error") => callStatus' = "error" /\ ~isInitialized']_vars

\* C20: answerCall and rejectCall call accept() or reject() on the session
\* only when the status is pending.
C20_AnswerOnlyWhenPending ==
  [][Occurs("accept") \/ Occurs("reject") => callStatus = "pending"]_vars

\* a step of a refresh attempt: its timer callback starts, goes on after an
\* await, or ends
RefreshAttempt == refreshes' # refreshes

\* C24: a token refresh attempt, succeeding or failing, leaves callStatus,
\* the session handle, the mute flag and the device reference as they were:
\* a failed refresh sets no error and ends no session.
C24_RefreshLeavesCall ==
  [][RefreshAttempt =>
       UNCHANGED <<callStatus, error, activeCallRef, isMuted, deviceRef, sessions>>]_vars

\* a refresh has failed, and its backoff is pending during an open, muted call
C24_Witness ==
  /\ tokenRefreshTimerRef = "backoff" /\ tokenTimers.backoff = 1
  /\ callStatus = "open" /\ isMuted /\ deviceRef # Null
  /\ activeCallRef # Null /\ sessions[activeCallRef].st = "live"

\* C25: when the backoff timeout armed by a failed refresh expires, the
\* credential fetch is attempted in that step.
C25_BackoffRetriesFetch ==
  [][(\E held \in BOOLEAN : BackoffTimerFire(held)) =>
       refreshes'.token = refreshes.token + 1]_vars

\* no device exists: none was constructed yet, or every one was destroyed
NoDevice == deviceRef = Null /\ UndestroyedDevices = {}

\* C26: while no device exists (after unmount, or after initialize destroyed
\* it on failure or on re-initialize) no token refresh timeout is pending and
\* no updateToken is awaited, also when a refresh was suspended on the
\* credential fetch at the teardown.
C26_TeardownCancelsRefresh ==
  NoDevice => /\ tokenTimers.refresh = 0 /\ tokenTimers.backoff = 0
              /\ refreshes.update = 0

\* C29: a token refresh timeout is pending only for a device whose
\* registration has succeeded.
C29_RefreshAfterRegistered ==
  tokenTimers.refresh + tokenTimers.backoff > 0 =>
    deviceRef # Null /\ devices[deviceRef] = "registered"

\* answerCall, rejectCall, endCall or toggleMute is invoked
UserOperation(throws) ==
  CallAnswer(throws) \/ CallReject(throws) \/ CallEnd(throws) \/ CallToggleMute(throws)

\* C21: answerCall, rejectCall, endCall and toggleMute invoked with no
\* active session each raise "No active call", surface it as an error and
\* have run cleanup when they return: handle null, isMuted false,
\* remoteIdentity empty.
C21_NoSessionFaultCleansUp ==
  [][\A throws \in BOOLEAN :
       (activeCallRef = Null /\ UserOperation(throws)) =>
          /\ probe'.thrown = NoActiveCall
          /\ callStatus' = "error" /\ error' \in {ErrAnswer, ErrReject, ErrEnd, ErrMute}
          /\ activeCallRef' = Null /\ ~isMuted' /\ remoteIdentity' = ""]_vars

\* C22: toggleMute with an active session calls mute() with the negated
\* flag and then stores it as isMuted; if mute() throws, isMuted keeps its
\* value and an error is surfaced.
C22_ToggleMuteStoresFlag ==
  [][\A throws \in BOOLEAN :
       (activeCallRef # Null /\ CallToggleMute(throws)) =>
          /\ probe'.arg = <<~isMuted>>
          /\ IF probe'.thrown = ""
             THEN isMuted' = ~isMuted /\ UNCHANGED <<callStatus, error>>
             ELSE isMuted' = isMuted /\ callStatus' = "error" /\ error' = ErrMute]_vars

\* mute(false) threw during a muted call: the flag is still set
C22_Witness ==
  /\ probe.pc = "caller" /\ probe.op = "toggleMute"
  /\ probe.arg = <<FALSE>> /\ probe.thrown = ProviderFault
  /\ isMuted /\ activeCallRef # Null /\ error = ErrMute

\* C23: makeCall goes on to connect only with a registered device, after
\* initialize has completed and in status ready; without a device it throws
\* "Device not initialized" and leaves status, handle and remoteIdentity alone.
C23_MakeCallNeedsReady ==
  /\ [][\A to \in Destinations, t \in CallTypes :
          (deviceRef # Null /\ CallMake(to, t)) =>
             /\ devices[deviceRef] = "registered" /\ isInitialized
             /\ callStatus = "ready"]_vars
  /\ [][\A to \in Destinations, t \in CallTypes :
          (deviceRef = Null /\ CallMake(to, t)) =>
             /\ probe'.thrown = DeviceNotInitialized
             /\ UNCHANGED <<callStatus, activeCallRef, remoteIdentity>>]_vars

\* the caller address is present
HasAddress(parameters) == "From" \in DOMAIN parameters /\ parameters["From"] # <<>>

\* C30: on "incoming" the session held before is disconnected, the incoming
\* session becomes the handle, the status pending, and remoteIdentity the
\* caller address without a leading "client:", or the address as it is when
\* it does not begin with it.
C30_IncomingBecomesPending ==
  [][\A d \in DeviceIds, parameters \in CallerParameters :
       IncomingFrom(d, parameters) =>
          /\ activeCallRef # Null => sessions'[activeCallRef].st # "live"
          /\ activeCallRef' # Null /\ sessions[activeCallRef'].st = "free"
          /\ sessions'[activeCallRef'] = [st |-> "live", dir |-> "in", phase |-> "new"]
          /\ callStatus' = "pending" /\ ~isMuted'
          /\ HasAddress(parameters) =>
               LET from == parameters["From"]
               IN IF Len(from) >= 7 /\ \A k \in 1..7 : from[k] = ClientPrefix[k]
                  THEN ClientPrefix \o remoteIdentity' = from
                  ELSE remoteIdentity' = from]_vars

\* a call from "client:d" came in during another call, which was disconnected
C30_Witness ==
  /\ probe.pc = "caller" /\ probe.op = "incoming"
  /\ probe.arg = [k \in {"From"} |-> ClientPrefix \o <<"d">>]
  /\ remoteIdentity = <<"d">> /\ callStatus = "pending"
  /\ activeCallRef # Null /\ sessions[activeCallRef].dir = "in"
  /\ \E s \in SessionIds : sessions[s].st = "disc"

\* the value is "true" in some mix of upper and lower case
IsTrueIgnoringCase(value) ==
  /\ Len(value) = 4
  /\ value[1] \in {"t", "T"} /\ value[2] \in {"r", "R"}
  /\ value[3] \in {"u", "U"} /\ value[4] \in {"e", "E"}

\* what the claim gives a switch: off when absent, else on exactly for "true"
SwitchOn(env, name) == name \in DOMAIN env /\ IsTrueIgnoringCase(env[name])

\* C27: each of the two switches (tunnel or local base URL, debug) is off
\* when its variable is absent, so that the base URL is the local one and
\* debug is disabled, and on exactly when the variable equals "true"
\* ignoring case.
C27_EnvSwitches ==
  probe.pc = "config" =>
    /\ probe.config.useNgrok = SwitchOn(probe.env, "VITE_USE_NGROK")
    /\ probe.config.debug = SwitchOn(probe.env, "VITE_ENABLE_DEBUG")
    /\ "VITE_USE_NGROK" \notin DOMAIN probe.env =>
         probe.config.baseUrl = probe.config.localUrl

\* C28: once ReservationList is unmounted none of its intervals (the 5 s
\* poll, the 1 s tick, the list refresh) is armed, and none fires.
C28_UnmountStopsTimers ==
  /\ [](~mounted => ~pollTimer /\ ~callTimer /\ ~refreshTimer)
  /\ [][~mounted => ~IntervalFires]_vars

\* unmounted during an open call whose intervals were armed, past the end time
C28_Witness ==
  /\ ~mounted /\ rendered.status = "open" /\ rendered.active # Null
  /\ clock = "due" /\ hsc.pc = "idle"

\* session s was disconnected by the program and another session holds the handle
Superseded(s) ==
  sessions[s].st = "disc" /\ activeCallRef # Null /\ activeCallRef # s

\* C31: the terminal event of a session that was torn down and replaced by a
\* newer one leaves the newer session connected, the handle on it and the
\* status as they were.
C31_StaleTerminalEventIgnored ==
  [][\A s \in SessionIds :
       Superseded(s) /\ SessionDisconnected(s) =>
         /\ activeCallRef' = activeCallRef
         /\ callStatus' = callStatus
         /\ sessions'[activeCallRef] = sessions[activeCallRef]]_vars

\* makeCall has set connecting, or `incoming` has set pending, and the call
\* attempt or the session it belongs to is still there
AttemptInProgress ==
  \/ /\ callStatus = "connecting"
     /\ \/ pendingConnects > 0
        \/ activeCallRef # Null /\ sessions[activeCallRef].st = "live"
  \/ /\ callStatus = "pending"
     /\ activeCallRef # Null /\ sessions[activeCallRef].st = "live"

\* C32: while a call attempt (connecting) or an inbound session (pending) is
\* in progress, a settle timer that an earlier session's terminal event
\* armed does not set the status to ready.
C32_SettleTimerSparesNewCall ==
  [][AttemptInProgress /\ SettleTimerFire => callStatus' # "ready"]_vars

\* the reservations the store holds as ongoing
Ongoing == {r \in ReservationIds : store[r] = "ongoing"}

\* C33: however invocations of handleStartCall overlap, once none is in
\* flight at most one reservation is left written ongoing (one reservation
\* at most is bound: activeCall holds one id).
C33_OneReservationOngoing ==
  (hsc.pc = "idle" /\ probe.at = "idle") => Cardinality(Ongoing) <= 1

\* reservation r is bound by this client and its call is being dialed or is
\* in progress
CallUnderWay(r) ==
  /\ r # Null /\ activeCall = r
  /\ hsc.pc = "dial" \/ callStatus \in {"connecting", "ringing", "open", "reconnecting"}

\* C34: the recovery at initialization never writes completed to a
\* reservation that this client has marked ongoing for a call that is being
\* dialed or is in progress, however its read interleaves with handleStartCall.
C34_RecoverySparesOwnCall ==
  [][RecoveryWritten(TRUE) => ~CallUnderWay(recovery.res)]_vars

\* C35: whenever isInitialized is true the controller holds a device that has
\* not been destroyed.
C35_InitializedHoldsDevice ==
  isInitialized => deviceRef # Null /\ deviceRef \in UndestroyedDevices

\* C36: once every initialize call has completed, the device the controller
\* holds was constructed with the token fetched for state.identity, the
\* identity requested last.
C36_DeviceOfLatestIdentity ==
  ((\A i \in InitSlots : inits[i].pc = "idle") /\ deviceRef # Null) =>
    probe.of[deviceRef] = identity

\* C37: at most one token-refresh timeout, of the full interval or of the
\* backoff, is pending at any time.
C37_OneRefreshTimer == tokenTimers.refresh + tokenTimers.backoff <= 1

\* initialize is invoked in this step
InvokesInitialize ==
  \E i \in InitSlots : inits[i].pc = "idle" /\ inits'[i].pc = "token"

\* C38: the effect of a presentation component invokes initialize only
\* while no earlier initialize call is in flight.
C38_NoOverlappingInitialize ==
  [][InvokesInitialize => \A i \in InitSlots : inits[i].pc = "idle"]_vars

\* initialize is invoked in this step for a username other than the one
\* refs.prevUsername holds
InitializesRenamed ==
  \E i \in InitSlots : /\ inits[i].pc = "idle" /\ inits'[i].pc = "token"
                       /\ inits'[i].ident # probe.prevUsername

\* C39: when the username changes while a reservation is bound, endCall is
\* invoked and the write of completed is issued in that step, without
\* initialize being invoked; and every step that invokes initialize for the
\* new username leaves no reservation bound, a reservation bound until then
\* being one whose write of completed returns in that step.
C39_CleanupBeforeRename ==
  /\ [][(probe.username # probe'.username /\ activeCall # Null)
          => /\ endWrites'[activeCall] = endWrites[activeCall] + 1
             /\ inits' = inits
             /\ activeCallRef # Null => sessions'[activeCallRef].st # "live"]_vars
  /\ [][InitializesRenamed
          => /\ activeCall' = Null
             /\ activeCall # Null
                  => endWrites'[activeCall] = endWrites[activeCall] - 1]_vars

\* the username changed while a reservation was bound, cleanupCall(true) has
\* resumed, and initialize is in flight for the new username
C39_Witness ==
  /\ probe.pc = "rename" /\ probe.cleaned
  /\ \E r \in ReservationIds : store[r] = "completed"
  /\ \E i \in InitSlots : inits[i].pc # "idle" /\ inits[i].ident = OtherUsername

\* a session is stored in the handle in this step
EstablishesSession == activeCallRef' # Null /\ activeCallRef' # activeCallRef

\* C40: while isMuted is true a session handle is held, and whenever a
\* session, outbound or inbound, is stored in the handle isMuted is false.
C40_MutedOnlyWithSession ==
  /\ [](isMuted => activeCallRef # Null)
  /\ [][EstablishesSession => ~isMuted']_vars
====
